---- MODULE Spec2Model ----
(***************************************************************************)
(* Model of the capture / change-detection pipeline of competitive-scrape. *)
(*                                                                         *)
(* Texts are sequences of one-character strings.  A raw HTML document is a *)
(* sequence of tokens: a token is either one character or one whole tag    *)
(* (a member of Tags), so that the tag-level regular expressions of        *)
(* cleanHtmlToText act on tokens while every length is counted in          *)
(* characters of the extracted text, as String.length counts it.           *)
(***************************************************************************)
EXTENDS Integers, Sequences, FiniteSets, TLC

VARIABLES
    pages,       \* rows of table MonitoredPage: set of [id, url]
    snapshots,   \* rows of table Snapshot, in insertion order (id = position)
    changes,     \* rows of table Change, in insertion order (id = position)
    runs,        \* one record per request slot: the locals of POST
    now,         \* the wall clock: the value `new Date()` returned last
    started,     \* number of requests received so far
    owner,       \* history: which request inserted each snapshot / change (by id)
    projects,    \* rows of table Project: set of [id]
    competitors, \* rows of table Competitor: set of [id, projectId]
    reports,     \* rows of table Report, in insertion order
    del,         \* the locals of DELETE /api/monitored-pages/[pageId]
    rep,         \* the locals of POST /api/projects/[projectId]/reports
    lst,         \* the locals of GET /api/monitored-pages/[pageId]/changes
    apiKey,      \* process.env.OPENAI_API_KEY is set
    panel,       \* state of one mounted CompetitorPagesPanel and its requests in flight
    extracted,   \* one scrapePage call: the product blocks of rawHtml, its pricingData
    dels         \* the locals of the DELETE calls on projects and competitors

vars == <<pages, snapshots, changes, runs, now, started, owner,
          projects, competitors, reports, del, rep, lst, apiKey, panel, extracted, dels>>

\* A nullable value (null / undefined in the source) is a sequence of no
\* element or of one element.
Null == <<>>
Some(x) == <<x>>
Val(o) == o[1]
\* x ?? d
Coalesce(o, d) == IF o = Null THEN d ELSE Val(o)

Min(a, b) == IF a < b THEN a ELSE b
Abs(x) == IF x < 0 THEN -x ELSE x

(***************************************************************************)
(* Bounds of the model.                                                    *)
(***************************************************************************)
NumSlots == 2      \* requests that can be in flight at once
MaxRuns == 2       \* requests received in one behaviour, reports apart
MaxReports == 1    \* report requests received in one behaviour
MaxRequests == 3   \* requests of all kinds received in one behaviour of SpecAll
MaxDeletes == 3    \* DELETE requests on projects and competitors in one behaviour
MaxClicks == 2     \* clicks in the pages panel that send a request, in one behaviour

Slots == 1..NumSlots
DeleteCalls == 1..MaxDeletes
PanelCalls == 1..MaxClicks

(***************************************************************************)
(* Characters.                                                             *)
(***************************************************************************)
Digits == {"0", "1", "2", "3", "4", "5", "6", "7", "8", "9"}

DigitVal(c) ==
    CASE c = "0" -> 0 [] c = "1" -> 1 [] c = "2" -> 2 [] c = "3" -> 3
      [] c = "4" -> 4 [] c = "5" -> 5 [] c = "6" -> 6 [] c = "7" -> 7
      [] c = "8" -> 8 [] c = "9" -> 9

DigitChar(d) ==
    CASE d = 0 -> "0" [] d = 1 -> "1" [] d = 2 -> "2" [] d = 3 -> "3"
      [] d = 4 -> "4" [] d = 5 -> "5" [] d = 6 -> "6" [] d = 7 -> "7"
      [] d = 8 -> "8" [] d = 9 -> "9"

\* the characters String.prototype.trim and \s treat as white space
WhiteSpace == {" ", "\t", "\n", "\r"}

\* the /i flag of priceRegex: letters are compared in lower case
ToLower(c) ==
    CASE c = "E" -> "e" [] c = "U" -> "u" [] c = "R" -> "r" [] c = "O" -> "o"
      [] c = "S" -> "s" [] c = "D" -> "d" [] OTHER -> c

\* n copies of the character c
Rep(c, n) == [i \in 1..n |-> c]

\* the elements of s at the positions keep accepts, in order
Keep(s, keep(_)) ==
    LET kept == SelectSeq([i \in 1..Len(s) |-> i], keep)
    IN  [k \in 1..Len(kept) |-> s[kept[k]]]

\* String.prototype.slice(0, n)
Slice(s, n) == SubSeq(s, 1, Min(Len(s), n))

\* String.prototype.trim
RECURSIVE TrimLeft(_)
TrimLeft(s) ==
    IF s # <<>> /\ Head(s) \in WhiteSpace THEN TrimLeft(Tail(s)) ELSE s

RECURSIVE TrimRight(_)
TrimRight(s) ==
    IF s # <<>> /\ s[Len(s)] \in WhiteSpace
    THEN TrimRight(SubSeq(s, 1, Len(s) - 1))
    ELSE s

Trim(s) == TrimRight(TrimLeft(s))

(***************************************************************************)
(* cleanHtmlToText (src/lib/scraping.ts).                                  *)
(***************************************************************************)
ScriptOpen == "<script>"
ScriptClose == "</script>"
StyleOpen == "<style>"
StyleClose == "</style>"

\* closing tags of the block elements, replaced by a newline
BlockCloseTags ==
    {"</p>", "</div>", "</h1>", "</h2>", "</li>", "</section>", "</article>",
     "</header>", "</footer>", "</tr>", "</br>"}

\* every tag token the sample documents use
Tags ==
    BlockCloseTags \cup
    {ScriptOpen, ScriptClose, StyleOpen, StyleClose,
     "<p>", "<div>", "<h1>", "<li>", "<span>", "</span>", "<br>"}

\* index of the first occurrence of token t in s at or after position i, 0 if none
IndexFrom(s, t, i) ==
    LET at == {k \in i..Len(s) : s[k] = t}
    IN  IF at = {} THEN 0 ELSE CHOOSE k \in at : \A o \in at : k <= o

\* output.replace(/<open[\s\S]*?<\/close>/gi, ' '): every open tag up to the
\* nearest following close tag becomes one space; an open tag that is never
\* closed stays
RECURSIVE RemoveBlocks(_, _, _)
RemoveBlocks(s, open, close) ==
    LET start == IndexFrom(s, open, 1)
        end == IF start = 0 THEN 0 ELSE IndexFrom(s, close, start + 1)
    IN  IF end = 0 THEN s
        ELSE SubSeq(s, 1, start - 1) \o <<" ">>
             \o RemoveBlocks(SubSeq(s, end + 1, Len(s)), open, close)

\* blockTagsToNewlines, then removeAllTags
ReplaceTags(s) ==
    [i \in 1..Len(s) |->
        IF s[i] \in BlockCloseTags THEN "\n"
        ELSE IF s[i] \in Tags THEN " "
        ELSE s[i]]

\* output.replace(/\r/g, '')
RemoveCR(s) == SelectSeq(s, LAMBDA c : c # "\r")

\* length of the run of characters of set cs at the head of s
RECURSIVE RunLen(_, _)
RunLen(s, cs) ==
    IF s # <<>> /\ Head(s) \in cs THEN 1 + RunLen(Tail(s), cs) ELSE 0

\* output.replace(/\n{3,}/g, '\n\n'): of a run of newlines the first two stay
CollapseNewlines(s) ==
    Keep(s, LAMBDA i : ~(i > 2 /\ s[i] = "\n" /\ s[i - 1] = "\n" /\ s[i - 2] = "\n"))

\* output.replace(/[ \t]+/g, ' '): a run of spaces and tabs becomes one space
CollapseSpaces(s) ==
    LET spaced == [i \in 1..Len(s) |-> IF s[i] = "\t" THEN " " ELSE s[i]]
    IN  Keep(spaced, LAMBDA i : ~(i > 1 /\ spaced[i] = " " /\ spaced[i - 1] = " "))

maxLength == 15000

cleanHtmlToText(rawHtml) ==
    LET noScript == RemoveBlocks(rawHtml, ScriptOpen, ScriptClose)
        noStyle == RemoveBlocks(noScript, StyleOpen, StyleClose)
        noTags == ReplaceTags(noStyle)
        output == Trim(CollapseSpaces(CollapseNewlines(RemoveCR(noTags))))
    IN  IF Len(output) > maxLength THEN Slice(output, maxLength) ELSE output

(***************************************************************************)
(* extractPricingFromText (scrape/route.ts).                               *)
(***************************************************************************)
MAX_ITEMS == 50
maxLabelLength == 120

\* text.split(/\r?\n/)
RECURSIVE SplitLines(_)
SplitLines(s) ==
    LET nl == IndexFrom(s, "\n", 1)
        end == IF nl > 1 /\ s[nl - 1] = "\r" THEN nl - 2 ELSE nl - 1
    IN  IF nl = 0 THEN <<s>>
        ELSE <<SubSeq(s, 1, end)>> \o SplitLines(SubSeq(s, nl + 1, Len(s)))

\* .map((line) => line.trim()).filter((line) => line.length > 0)
RECURSIVE TrimmedNonEmpty(_)
TrimmedNonEmpty(ls) ==
    IF ls = <<>> THEN <<>>
    ELSE (IF Trim(Head(ls)) # <<>> THEN <<Trim(Head(ls))>> ELSE <<>>)
         \o TrimmedNonEmpty(Tail(ls))

Lines(text) == TrimmedNonEmpty(SplitLines(text))

\* the suffix of s that starts at position i
From(s, i) == SubSeq(s, i, Len(s))

\* does the lower-cased s start with the characters of word?
StartsWithCI(s, word) ==
    /\ Len(s) >= Len(word)
    /\ \A k \in 1..Len(word) : ToLower(s[k]) = word[k]

\* (€|eur|euro|\$|usd) at the head of s: the alternative that matches, in the
\* order the regular expression tries them ("eur" wins over "euro")
CurrencyToken(s) ==
    IF StartsWithCI(s, <<"€">>) THEN "€"
    ELSE IF StartsWithCI(s, <<"e", "u", "r">>) THEN "EUR"
    ELSE IF StartsWithCI(s, <<"e", "u", "r", "o">>) THEN "EURO"
    ELSE IF StartsWithCI(s, <<"$">>) THEN "$"
    ELSE IF StartsWithCI(s, <<"u", "s", "d">>) THEN "USD"
    ELSE ""

\* length of the match of \d+[.,]?\d* at the head of s (0 when there is none)
NumberLen(s) ==
    LET d1 == RunLen(s, Digits)
        sep == IF d1 > 0 /\ Len(s) > d1 /\ s[d1 + 1] \in {".", ","} THEN 1 ELSE 0
        d2 == IF d1 > 0 THEN RunLen(From(s, d1 + sep + 1), Digits) ELSE 0
    IN  d1 + sep + d2

\* priceRegex tried at position i of line: Null, or the captured groups (a
\* group that took no part in the match is empty, which is as falsy as the
\* undefined the source tests with &&).
\* First alternative (\d+[.,]?\d*)\s*(€|eur|euro|\$|usd), then (\$)\s*(\d+[.,]?\d*).
MatchAt(line, i) ==
    LET s == From(line, i)
        n1 == NumberLen(s)
        afterWs == From(s, n1 + 1 + RunLen(From(s, n1 + 1), WhiteSpace))
        ws2 == RunLen(Tail(s), WhiteSpace)
        n2 == NumberLen(From(s, ws2 + 2))
    IN  IF n1 > 0 /\ CurrencyToken(afterWs) # ""
        THEN Some([m1 |-> SubSeq(s, 1, n1), m2 |-> CurrencyToken(afterWs),
                   m3 |-> "", m4 |-> <<>>])
        ELSE IF s # <<>> /\ Head(s) = "$" /\ n2 > 0
        THEN Some([m1 |-> <<>>, m2 |-> "",
                   m3 |-> "$", m4 |-> SubSeq(s, ws2 + 2, ws2 + 1 + n2)])
        ELSE Null

\* line.match(priceRegex): the leftmost match (a match starts at a digit or at "$")
Match(line) ==
    LET starts == {i \in 1..Len(line) :
                      line[i] \in Digits \cup {"$"} /\ MatchAt(line, i) # Null}
    IN  IF starts = {} THEN Null
        ELSE MatchAt(line, CHOOSE i \in starts : \A o \in starts : i <= o)

\* value of a run of digits
RECURSIVE DigitsValue(_)
DigitsValue(ds) ==
    IF ds = <<>> THEN 0
    ELSE 10 * DigitsValue(SubSeq(ds, 1, Len(ds) - 1)) + DigitVal(ds[Len(ds)])

RECURSIVE StripTrailingZeros(_)
StripTrailingZeros(ds) ==
    IF ds # <<>> /\ ds[Len(ds)] = "0"
    THEN StripTrailingZeros(SubSeq(ds, 1, Len(ds) - 1))
    ELSE ds

\* Number(amountStr.replace(',', '.')) for an amountStr matched by \d+[.,]?\d*:
\* the number, as its whole part and its significant decimals
ToNumber(amountStr) ==
    LET d1 == RunLen(amountStr, Digits)
    IN  [whole |-> DigitsValue(SubSeq(amountStr, 1, d1)),
         frac |-> StripTrailingZeros(From(amountStr, d1 + 2))]

\* the item pushed for a line that matches
ItemOf(line) ==
    LET match == Val(Match(line))
        amountStr == IF match.m1 # <<>> /\ match.m2 # "" THEN match.m1 ELSE match.m4
        currency ==
            IF match.m1 # <<>> /\ match.m2 # ""
            THEN (IF match.m2 \in {"€", "EURO", "EUR"} THEN "EUR"
                  ELSE IF match.m2 \in {"$", "USD"} THEN "USD"
                  ELSE match.m2)
            ELSE "USD"
    IN  [label |-> Slice(line, maxLabelLength),
         amount |-> ToNumber(amountStr),
         currency |-> currency,
         rawLine |-> line]

\* the loop over the lines, stopping at MAX_ITEMS items
RECURSIVE CollectItems(_, _)
CollectItems(lines, items) ==
    IF lines = <<>> \/ Len(items) >= MAX_ITEMS THEN items
    ELSE IF Match(Head(lines)) = Null THEN CollectItems(Tail(lines), items)
    ELSE CollectItems(Tail(lines), Append(items, ItemOf(Head(lines))))

extractPricingFromText(text) ==
    IF text = <<>> THEN <<>>
    ELSE CollectItems(Lines(text), <<>>)

(***************************************************************************)
(* parsePriceFromString and extractPricingFromHtml (src/lib/scraping.ts).  *)
(* The raw markup is seen through the matches of articleRegex: one record  *)
(* per <article data-sku="..."> block, in document order, that carries the *)
(* group each of the four inner expressions captures, or Null when the     *)
(* expression does not match.  A captured group is never empty ([^<]+ and  *)
(* [^"]+).                                                                 *)
(***************************************************************************)
\* raw.replace(/\s/g, '').replace(/[^\d.,]/g, '')
StripToPriceChars(raw) ==
    SelectSeq(SelectSeq(raw, LAMBDA c : c \notin WhiteSpace),
              LAMBDA c : c \in Digits \cup {".", ","})

\* s.replace(',', '.'): a string pattern replaces the first occurrence only
ReplaceFirstComma(s) ==
    LET at == IndexFrom(s, ",", 1)
    IN  IF at = 0 THEN s ELSE [s EXCEPT ![at] = "."]

\* Number(cleaned) for a string of digits, "." and ",": Null is NaN.
\* The empty string converts to 0; otherwise the string has to be a decimal
\* literal (digits with at most one ".", and at least one digit).
NumberOfCleaned(cleaned) ==
    IF cleaned = <<>> THEN Some([whole |-> 0, frac |-> <<>>])
    ELSE IF /\ \A i \in 1..Len(cleaned) : cleaned[i] # ","
            /\ Cardinality({i \in 1..Len(cleaned) : cleaned[i] = "."}) <= 1
            /\ \E i \in 1..Len(cleaned) : cleaned[i] \in Digits
    THEN Some(ToNumber(cleaned))
    ELSE Null

\* Null when Number.isFinite(value) is false (the price texts of the model
\* are far too short to overflow to Infinity)
parsePriceFromString(raw) == NumberOfCleaned(ReplaceFirstComma(StripToPriceChars(raw)))

\* the body of the while loop for one article block: Null on `continue`,
\* else the item pushed
ArticleItem(article) ==
    IF article.name = Null \/ (article.priceData = Null /\ article.priceText = Null)
    THEN Null
    ELSE LET rawPrice == IF article.priceData # Null THEN Val(article.priceData)
                         ELSE Val(article.priceText)
             price == parsePriceFromString(rawPrice)
         IN  IF price = Null THEN Null
             ELSE Some([sku |-> article.sku,
                        name |-> Trim(Val(article.name)),
                        price |-> Val(price),
                        currency |-> "EUR",
                        availability |->
                            IF article.availability = Null THEN Null
                            ELSE Some(Trim(Val(article.availability)))])

\* one item per article block the loop does not skip, in document order
extractPricingFromHtml(articles) ==
    LET kept == SelectSeq(articles, LAMBDA article : ArticleItem(article) # Null)
    IN  [i \in 1..Len(kept) |-> Val(ArticleItem(kept[i]))]

(***************************************************************************)
(* JSON.stringify of a stored pricing value (null, or a list of items).    *)
(* Both values the route serializes were read back from the same column,   *)
(* so both carry their keys in the same order.                             *)
(***************************************************************************)
RECURSIVE NatDigits(_)
NatDigits(n) ==
    IF n < 10 THEN <<DigitChar(n)>>
    ELSE Append(NatDigits(n \div 10), DigitChar(n % 10))

\* the characters of s from position lo to position hi, escaped
RECURSIVE JsonEscapeRange(_, _, _)
JsonEscapeRange(s, lo, hi) ==
    IF lo > hi THEN <<>>
    ELSE IF lo = hi
    THEN (IF s[lo] \in {"\"", "\\"} THEN <<"\\", s[lo]>>
          ELSE IF s[lo] = "\t" THEN <<"\\", "t">>
          ELSE <<s[lo]>>)
    ELSE JsonEscapeRange(s, lo, (lo + hi) \div 2)
         \o JsonEscapeRange(s, (lo + hi) \div 2 + 1, hi)

JsonEscape(s) == JsonEscapeRange(s, 1, Len(s))

JsonString(s) == <<"\"">> \o JsonEscape(s) \o <<"\"">>

JsonNumber(a) ==
    NatDigits(a.whole) \o (IF a.frac = <<>> THEN <<>> ELSE <<".">> \o a.frac)

CurrencyChars(c) ==
    CASE c = "EUR" -> <<"E", "U", "R">>
      [] c = "USD" -> <<"U", "S", "D">>
      [] c = "EURO" -> <<"E", "U", "R", "O">>
      [] c = "€" -> <<"€">>
      [] c = "$" -> <<"$">>

JsonItem(it) ==
    <<"{">> \o JsonString(<<"l", "a", "b", "e", "l">>) \o <<":">> \o JsonString(it.label)
    \o <<",">> \o JsonString(<<"a", "m", "o", "u", "n", "t">>) \o <<":">> \o JsonNumber(it.amount)
    \o <<",">> \o JsonString(<<"c", "u", "r", "r", "e", "n", "c", "y">>) \o <<":">>
    \o JsonString(CurrencyChars(it.currency))
    \o <<",">> \o JsonString(<<"r", "a", "w", "L", "i", "n", "e">>) \o <<":">>
    \o JsonString(it.rawLine)
    \o <<"}">>

RECURSIVE JsonItems(_)
JsonItems(items) ==
    IF items = <<>> THEN <<>>
    ELSE JsonItem(Head(items))
         \o (IF Len(items) > 1 THEN <<",">> ELSE <<>>) \o JsonItems(Tail(items))

JsonStringify(pricing) ==
    IF pricing = Null THEN <<"n", "u", "l", "l">>
    ELSE <<"[">> \o JsonItems(Val(pricing)) \o <<"]">>

(***************************************************************************)
(* Sample documents a monitored URL can serve.                             *)
(***************************************************************************)
\* 1 character of text, no price; the script block is dropped
HtmlOne == <<"<script>", "9", "$", "</script>", "<p>", "a", "</p>">>
\* 21 characters of text, no price (length delta 20 from HtmlOne)
HtmlMid == <<"<div>">> \o Rep("b", 21) \o <<"</div>">>
\* 22 characters of text, no price (length delta 21 from HtmlOne)
HtmlLong == <<"<div>">> \o Rep("c", 22) \o <<"</div>">>
\* an empty page: the extracted text is empty
HtmlEmpty == <<"<p>", "</p>">>
\* two price lines, 12 characters of text
HtmlPricesAB ==
    <<"<li>", "4", "9", ",", "9", "0", " ", "€", "</li>", "<li>", "$", "5", "x", "</li>">>
\* the same two lines in the other order, 12 characters of text
HtmlPricesBA ==
    <<"<li>", "$", "5", "x", "</li>", "<li>", "4", "9", ",", "9", "0", " ", "€", "</li>">>

\* 2001 characters of text on one line, no price
HtmlHuge == <<"<div>">> \o Rep("d", 2001) \o <<"</div>">>
\* a price line of 120 characters
HtmlPriceLine == <<"<li>", "$", "5">> \o Rep("x", 118) \o <<"</li>">>
\* eight price lines: 974 characters of text; the serialized pricing list is
\* 2353 characters long
HtmlManyPrices ==
    HtmlPriceLine \o HtmlPriceLine \o HtmlPriceLine \o HtmlPriceLine
    \o HtmlPriceLine \o HtmlPriceLine \o HtmlPriceLine \o HtmlPriceLine

HtmlSamples ==
    {HtmlOne, HtmlMid, HtmlLong, HtmlEmpty, HtmlPricesAB, HtmlPricesBA,
     HtmlHuge, HtmlManyPrices}

\* the documents the URL of a monitored page serves from now on (u1 served
\* HtmlOne before)
ServedBy(url) ==
    CASE url = "u1" -> {HtmlEmpty, HtmlMid, HtmlLong}
      [] url = "u2" -> {HtmlEmpty, HtmlPricesAB, HtmlPricesBA}
      [] url = "u3" -> {HtmlHuge, HtmlManyPrices}

(***************************************************************************)
(* Requests.                                                               *)
(***************************************************************************)
\* the pageId path parameters a request can carry
RawPageIds == {"1", "2", "3", "0", "abc"}

\* Number(raw) for the sample parameters; Null stands for NaN
NumberOf(raw) ==
    CASE raw = "1" -> Some(1) [] raw = "2" -> Some(2) [] raw = "3" -> Some(3)
      [] raw = "0" -> Some(0) [] OTHER -> Null

\* parsePageId: Null when the id is not finite or not positive
parsePageId(raw) ==
    LET id == NumberOf(raw)
    IN  IF id = Null \/ Val(id) <= 0 THEN Null ELSE id

\* the locals of one POST call
IdleRun ==
    [pc |-> "idle", req |-> 0, monitoredPageId |-> 0, url |-> "",
     previousSnapshot |-> Null, rawHtml |-> <<>>, extractedText |-> Null,
     pricingData |-> <<>>, capturedAt |-> 0, newSnapshot |-> Null,
     change |-> Null, hasChange |-> FALSE, status |-> 0, thrown |-> ""]

\* the snapshot an earlier, completed first capture of a page left behind
EarlierSnapshot(pageId, html) ==
    [id |-> 1,
     monitoredPageId |-> pageId,
     rawHtml |-> html,
     extractedText |-> Some(cleanHtmlToText(html)),
     capturedAt |-> 0,
     extractedPricing |->
        IF Len(extractPricingFromText(cleanHtmlToText(html))) > 0
        THEN Some(extractPricingFromText(cleanHtmlToText(html)))
        ELSE Null]

\* the locals of one DELETE /api/monitored-pages/[pageId] call
IdleDelete == [pc |-> "idle", req |-> 0, monitoredPageId |-> 0, status |-> 0]

\* the locals of one GET /api/monitored-pages/[pageId]/changes call
IdleList == [pc |-> "idle", req |-> 0, monitoredPageId |-> 0, status |-> 0, body |-> <<>>]

\* the locals of one POST /api/projects/[projectId]/reports call
IdleReport ==
    [pc |-> "idle", req |-> 0, projectId |-> 0, periodStart |-> Null, periodEnd |-> Null,
     useAi |-> FALSE, changes |-> <<>>, called |-> FALSE, outcome |-> "",
     aiSummary |-> Null, highlights |-> Null, created |-> Null, status |-> 0,
     thrown |-> "", prompt |-> Null]

\* the locals of one handleRunSnapshot or handleToggleChanges call: the page,
\* the state the handler closed over (expandedPageId, changesByPage[pageId])
\* and the answers it has received
IdleCall ==
    [handler |-> "", pc |-> "idle", pageId |-> 0, expandedPageId |-> Null,
     current |-> Null, ok |-> FALSE, created |-> Null, body |-> <<>>]

\* the state of a CompetitorPagesPanel after it is mounted (the useState
\* initial values), with no handler call in flight
IdlePanel ==
    [scrapingPageId |-> Null, expandedPageId |-> Null,
     changesByPage |-> [pageId \in {1, 2} |-> Null],
     calls |-> [k \in PanelCalls |-> IdleCall]]

\* the locals of one DELETE /api/projects/[projectId] or
\* DELETE /api/competitors/[competitorId] call
IdleOwnerDelete ==
    [pc |-> "idle", kind |-> "", id |-> 0, status |-> 0, deletedId |-> Null, thrown |-> ""]

\* no DELETE on a project or a competitor has arrived
IdleDeletes == [k \in DeleteCalls |-> IdleOwnerDelete]

\* no scrapePage call has fetched anything
NoExtraction ==
    [pc |-> "idle", articles |-> <<>>, extractedText |-> <<>>,
     pricingData |-> Null, looseItems |-> Null]

\* Two projects with one competitor each; competitor 1 has page 1,
\* competitor 2 has page 2.
InitProjects ==
    /\ projects = {[id |-> 1], [id |-> 2]}
    /\ competitors = {[id |-> 1, projectId |-> 1], [id |-> 2, projectId |-> 2]}
    /\ pages = {[id |-> 1, url |-> "u1", competitorId |-> 1],
                [id |-> 2, url |-> "u2", competitorId |-> 2]}

\* no request of any kind is in flight
InitIdle ==
    /\ runs = [p \in Slots |-> IdleRun]
    /\ del = IdleDelete
    /\ rep = IdleReport
    /\ lst = IdleList
    /\ started = 0

\* Two monitored pages: page 1 has the one capture an earlier request
\* (request 0) made of it, page 2 has none yet.
Init ==
    /\ InitProjects
    /\ InitIdle
    /\ snapshots = <<EarlierSnapshot(1, HtmlOne)>>
    /\ changes = <<>>
    /\ reports = <<>>
    /\ now = 0
    /\ owner = [snap |-> [i \in DOMAIN snapshots |-> 0], chg |-> <<>>]
    /\ apiKey = FALSE
    /\ panel = IdlePanel
    /\ dels = IdleDeletes
    /\ extracted = NoExtraction

Range(f) == {f[i] : i \in DOMAIN f}

(***************************************************************************)
(* Storage queries.                                                        *)
(***************************************************************************)
\* prisma.monitoredPage.findUnique({ where: { id } })
FindPageById(id) == {pg \in pages : pg.id = id}

\* FindFirstSnapshot without its where clause
FindFirstSnapshotOfAnyPage(pageId) ==
    {sn \in Range(snapshots) : \A other \in Range(snapshots) : other.capturedAt <= sn.capturedAt}

\* FindFirstSnapshot with orderBy capturedAt ascending: the first capture of
\* the page
FindOldestSnapshot(pageId) ==
    LET rows == {sn \in Range(snapshots) : sn.monitoredPageId = pageId}
    IN  {sn \in rows : \A other \in rows : other.capturedAt >= sn.capturedAt}

\* prisma.snapshot.findFirst({ where: { monitoredPageId }, orderBy: { capturedAt: 'desc' } }):
\* the rows the query may return (rows with equal capturedAt come in any order)
FindFirstSnapshot(pageId) ==
    LET rows == {sn \in Range(snapshots) : sn.monitoredPageId = pageId}
    IN  {sn \in rows : \A other \in rows : other.capturedAt <= sn.capturedAt}

(***************************************************************************)
(* The comparisons of POST.                                                *)
(***************************************************************************)
MIN_LENGTH_DELTA == 20
maxStoredLength == 2000

\* TextChangeDetected with >= for >
TextChangeDetectedAtThreshold(previous, extractedText) ==
    LET oldText == Coalesce(previous.extractedText, <<>>)
        newText == Coalesce(extractedText, <<>>)
    IN  /\ oldText # newText
        /\ (Abs(Len(newText) - Len(oldText)) >= 20 \/ Len(newText) = 0)

\* contentChanged && (lengthDelta > MIN_LENGTH_DELTA || newLen === 0)
TextChangeDetected(previous, extractedText) ==
    LET oldText == Coalesce(previous.extractedText, <<>>)
        newText == Coalesce(extractedText, <<>>)
        oldLen == Len(oldText)
        newLen == Len(newText)
        lengthDelta == Abs(newLen - oldLen)
        contentChanged == oldText # newText
    IN  contentChanged /\ (lengthDelta > MIN_LENGTH_DELTA \/ newLen = 0)

\* PriceChangeDetected comparing the lists as sets of items
PriceChangeDetectedUnordered(previous, newSnapshot) ==
    LET items(pricing) == IF pricing = Null THEN {} ELSE {Val(pricing)[i] : i \in DOMAIN Val(pricing)}
    IN  items(previous.extractedPricing) # items(newSnapshot.extractedPricing)

\* pricingChanged && (oldPricing || newPricing)
PriceChangeDetected(previous, newSnapshot) ==
    LET oldPricing == previous.extractedPricing
        newPricing == newSnapshot.extractedPricing
        pricingChanged == JsonStringify(oldPricing) # JsonStringify(newPricing)
    IN  pricingChanged /\ (oldPricing # Null \/ newPricing # Null)

\* the row prisma.snapshot.create inserts
NewSnapshotRow(r) ==
    [id |-> Len(owner.snap) + 1,
     monitoredPageId |-> r.monitoredPageId,
     rawHtml |-> r.rawHtml,
     extractedText |-> r.extractedText,
     capturedAt |-> r.capturedAt,
     extractedPricing |->
        IF Len(r.pricingData) > 0 THEN Some(r.pricingData) ELSE Null]

\* TextChangeRow with the id of the previous snapshot as the page of the change
TextChangeRowOfSnapshotId(r) ==
    LET previous == Val(r.previousSnapshot)
        oldText == Coalesce(previous.extractedText, <<>>)
        newText == Coalesce(r.extractedText, <<>>)
    IN  [id |-> Len(owner.chg) + 1,
         createdAt |-> now,
         monitoredPageId |-> previous.id,
         oldSnapshotId |-> previous.id,
         newSnapshotId |-> Val(r.newSnapshot).id,
         changeType |-> "TEXT",
         field |-> "content",
         oldValue |-> Slice(oldText, 2000),
         newValue |-> Slice(newText, 2000),
         changeSummary |-> <<Len(oldText), Len(newText)>>]

\* TextChangeRow storing the two texts whole
TextChangeRowUntruncated(r) ==
    LET previous == Val(r.previousSnapshot)
        oldText == Coalesce(previous.extractedText, <<>>)
        newText == Coalesce(r.extractedText, <<>>)
    IN  [id |-> Len(owner.chg) + 1,
         createdAt |-> now,
         monitoredPageId |-> r.monitoredPageId,
         oldSnapshotId |-> previous.id,
         newSnapshotId |-> Val(r.newSnapshot).id,
         changeType |-> "TEXT",
         field |-> "content",
         oldValue |-> oldText,
         newValue |-> newText,
         changeSummary |-> <<Len(oldText), Len(newText)>>]

\* the row the first prisma.change.create inserts
TextChangeRow(r) ==
    LET previous == Val(r.previousSnapshot)
        oldText == Coalesce(previous.extractedText, <<>>)
        newText == Coalesce(r.extractedText, <<>>)
    IN  [id |-> Len(owner.chg) + 1,
         createdAt |-> now,
         monitoredPageId |-> r.monitoredPageId,
         oldSnapshotId |-> previous.id,
         newSnapshotId |-> Val(r.newSnapshot).id,
         changeType |-> "TEXT",
         field |-> "content",
         oldValue |-> Slice(oldText, maxStoredLength),
         newValue |-> Slice(newText, maxStoredLength),
         changeSummary |-> <<Len(oldText), Len(newText)>>]

\* PriceChangeRow with the previous snapshot as the new one
PriceChangeRowOfPrevious(r) ==
    LET previous == Val(r.previousSnapshot)
    IN  [id |-> Len(owner.chg) + 1,
         createdAt |-> now,
         monitoredPageId |-> r.monitoredPageId,
         oldSnapshotId |-> previous.id,
         newSnapshotId |-> previous.id,
         changeType |-> "PRICE",
         field |-> "pricing",
         oldValue |-> Slice(JsonStringify(previous.extractedPricing), 2000),
         newValue |-> Slice(JsonStringify(Val(r.newSnapshot).extractedPricing), 2000),
         changeSummary |-> <<>>]

\* the row the second prisma.change.create inserts
PriceChangeRow(r) ==
    LET previous == Val(r.previousSnapshot)
    IN  [id |-> Len(owner.chg) + 1,
         createdAt |-> now,
         monitoredPageId |-> r.monitoredPageId,
         oldSnapshotId |-> previous.id,
         newSnapshotId |-> Val(r.newSnapshot).id,
         changeType |-> "PRICE",
         field |-> "pricing",
         oldValue |-> Slice(JsonStringify(previous.extractedPricing), maxStoredLength),
         newValue |-> Slice(JsonStringify(Val(r.newSnapshot).extractedPricing), maxStoredLength),
         changeSummary |-> <<>>]

\* a Change row with no foreign key checked
NoForeignKeys(row) == TRUE

\* the foreign keys of a Change row: Change_monitoredPageId_fkey,
\* Change_oldSnapshotId_fkey, Change_newSnapshotId_fkey
ChangeForeignKeys(row) ==
    /\ \E pg \in pages : pg.id = row.monitoredPageId
    /\ \E sn \in Range(snapshots) : sn.id = row.oldSnapshotId
    /\ \E sn \in Range(snapshots) : sn.id = row.newSnapshotId

\* the response: NextResponse.json({ snapshot, change, hasChange, message }, { status });
\* the locals that are not part of it are dead and are dropped
Respond(r, status) ==
    [r EXCEPT !.pc = "done", !.status = status, !.url = "", !.rawHtml = <<>>,
              !.extractedText = Null, !.pricingData = <<>>, !.capturedAt = 0]

\* the catch block: the error is logged and a 500 is returned, with a message only
Catch(r, error) ==
    [IdleRun EXCEPT !.pc = "done", !.status = 500, !.req = r.req, !.thrown = error]

(***************************************************************************)
(* The steps of POST /api/monitored-pages/[pageId]/scrape.  Each action is *)
(* the code from one await to the next.                                    *)
(***************************************************************************)
\* the slot a new request takes: the lowest one that holds no request in
\* flight (0 when there is none)
FreeSlot ==
    LET free == {q \in Slots : runs[q].pc \in {"idle", "done"}}
    IN  IF free = {} THEN 0 ELSE CHOOSE q \in free : \A o \in free : q <= o

\* a request arrives with a parameter parsePageId rejects: 400
ReceiveInvalid(p, raw) ==
    /\ p = FreeSlot
    /\ started < MaxRuns
    /\ parsePageId(raw) = Null
    /\ started' = started + 1
    /\ runs' = [runs EXCEPT ![p] = Respond([IdleRun EXCEPT !.req = started + 1], 400)]
    /\ UNCHANGED <<projects, competitors, reports, del, rep, lst, apiKey, panel, extracted, dels, pages, snapshots, changes, now, owner>>

\* Receive behind a lock per page: refused while a run on the page is in flight
ReceiveLocked(p, raw) ==
    /\ p = FreeSlot
    /\ started < MaxRuns
    /\ parsePageId(raw) # Null
    /\ \A q \in Slots :
          runs[q].pc \in {"idle", "done"} \/ runs[q].monitoredPageId # Val(parsePageId(raw))
    /\ started' = started + 1
    /\ runs' = [runs EXCEPT ![p] =
            [IdleRun EXCEPT !.pc = "findPage", !.req = started + 1,
                            !.monitoredPageId = Val(parsePageId(raw))]]
    /\ UNCHANGED <<projects, competitors, reports, del, rep, lst, apiKey, panel, extracted, dels, pages, snapshots, changes, now, owner>>

\* a request arrives with a valid id: prisma.monitoredPage.findUnique is called
Receive(p, raw) ==
    /\ p = FreeSlot
    /\ started < MaxRuns
    /\ parsePageId(raw) # Null
    /\ started' = started + 1
    /\ runs' = [runs EXCEPT ![p] =
            [IdleRun EXCEPT !.pc = "findPage", !.req = started + 1,
                            !.monitoredPageId = Val(parsePageId(raw))]]
    /\ UNCHANGED <<projects, competitors, reports, del, rep, lst, apiKey, panel, extracted, dels, pages, snapshots, changes, now, owner>>

\* PageNotFound without the 404: the run goes on as if the page were there
PageNotFoundProceeds(p) ==
    /\ runs[p].pc = "findPage"
    /\ FindPageById(runs[p].monitoredPageId) = {}
    /\ runs' = [runs EXCEPT ![p] = [@ EXCEPT !.pc = "findPrevious", !.url = "u3"]]
    /\ UNCHANGED <<projects, competitors, reports, del, rep, lst, apiKey, panel, extracted, dels, pages, snapshots, changes, now, started, owner>>

\* findUnique finds no page: 404
PageNotFound(p) ==
    /\ runs[p].pc = "findPage"
    /\ FindPageById(runs[p].monitoredPageId) = {}
    /\ runs' = [runs EXCEPT ![p] = Respond(@, 404)]
    /\ UNCHANGED <<projects, competitors, reports, del, rep, lst, apiKey, panel, extracted, dels, pages, snapshots, changes, now, started, owner>>

\* findUnique returns the page: prisma.snapshot.findFirst is called
PageFound(p) ==
    /\ runs[p].pc = "findPage"
    /\ \E pg \in FindPageById(runs[p].monitoredPageId) :
          runs' = [runs EXCEPT ![p] = [@ EXCEPT !.pc = "findPrevious", !.url = pg.url]]
    /\ UNCHANGED <<projects, competitors, reports, del, rep, lst, apiKey, panel, extracted, dels, pages, snapshots, changes, now, started, owner>>

\* findFirst returns the previous snapshot (or none): scrapePage is called
LoadPrevious(p) ==
    /\ runs[p].pc = "findPrevious"
    /\ \/ /\ FindFirstSnapshot(runs[p].monitoredPageId) = {}
          /\ runs' = [runs EXCEPT ![p] = [@ EXCEPT !.pc = "scrape"]]
       \/ \E sn \in FindFirstSnapshot(runs[p].monitoredPageId) :
             runs' = [runs EXCEPT ![p] =
                        [@ EXCEPT !.pc = "scrape", !.previousSnapshot = Some(sn)]]
    /\ UNCHANGED <<projects, competitors, reports, del, rep, lst, apiKey, panel, extracted, dels, pages, snapshots, changes, now, started, owner>>

\* the ways scrapePage throws: fetch rejects, or the response is not ok
FetchErrors == {"network", "not ok"}

\* the values `new Date()` can return to request p: a later millisecond than
\* the last one read, or the same millisecond as a request whose insert of
\* the snapshot it dated is still on its way
Dates(p) ==
    {now + 1} \cup
    {now : q \in {q \in Slots \ {p} :
                    runs[q].pc = "createSnapshot" /\ runs[q].capturedAt = now}}

\* scrapePage resolves: the text is cleaned, the pricing extracted, the date
\* taken, and prisma.snapshot.create is called
ScrapeOk(p, html, date) ==
    /\ runs[p].pc = "scrape"
    /\ html \in ServedBy(runs[p].url)
    /\ date \in Dates(p)
    /\ now' = date
    /\ runs' = [runs EXCEPT ![p] =
            [@ EXCEPT !.pc = "createSnapshot",
                      !.rawHtml = html,
                      !.extractedText = Some(cleanHtmlToText(html)),
                      !.pricingData =
                          extractPricingFromText(Coalesce(Some(cleanHtmlToText(html)), <<>>)),
                      !.capturedAt = date]]
    /\ UNCHANGED <<projects, competitors, reports, del, rep, lst, apiKey, panel, extracted, dels, pages, snapshots, changes, started, owner>>

\* ScrapeFails in a route that stores the snapshot row before it scrapes
ScrapeFailsAfterInsert(p, error) ==
    /\ runs[p].pc = "scrape"
    /\ error \in FetchErrors
    /\ snapshots' = Append(snapshots, NewSnapshotRow(runs[p]))
    /\ owner' = [owner EXCEPT !.snap = Append(@, runs[p].req)]
    /\ runs' = [runs EXCEPT ![p] = Catch(@, error)]
    /\ UNCHANGED <<projects, competitors, reports, del, rep, lst, apiKey, panel, extracted, dels, pages, changes, now, started>>

\* scrapePage throws: the catch block answers 500
ScrapeFails(p, error) ==
    /\ runs[p].pc = "scrape"
    /\ error \in FetchErrors
    /\ runs' = [runs EXCEPT ![p] = Catch(@, error)]
    /\ UNCHANGED <<projects, competitors, reports, del, rep, lst, apiKey, panel, extracted, dels, pages, snapshots, changes, now, started, owner>>

\* where POST goes once the snapshot is stored: the text change, the price
\* change, or the response
AfterSnapshot(r) ==
    IF r.previousSnapshot = Null THEN Respond(r, 201)
    ELSE IF TextChangeDetected(Val(r.previousSnapshot), r.extractedText)
    THEN [r EXCEPT !.pc = "createTextChange", !.hasChange = TRUE]
    ELSE IF PriceChangeDetected(Val(r.previousSnapshot), Val(r.newSnapshot))
    THEN [r EXCEPT !.pc = "createPriceChange", !.hasChange = TRUE]
    ELSE Respond(r, 201)

\* where POST goes once the text change is stored
AfterTextChange(r) ==
    IF PriceChangeDetected(Val(r.previousSnapshot), Val(r.newSnapshot))
    THEN [r EXCEPT !.pc = "createPriceChange", !.hasChange = TRUE]
    ELSE Respond(r, 201)

\* CreateSnapshot storing the capture only when it differs from the prior one
CreateSnapshotIfChanged(p) ==
    LET r == [runs[p] EXCEPT !.newSnapshot = Some(NewSnapshotRow(runs[p]))]
        same == /\ r.previousSnapshot # Null
                /\ Val(r.previousSnapshot).extractedText = r.extractedText
    IN  /\ runs[p].pc = "createSnapshot"
        /\ snapshots' = IF same THEN snapshots ELSE Append(snapshots, NewSnapshotRow(runs[p]))
        /\ owner' = IF same THEN owner ELSE [owner EXCEPT !.snap = Append(@, runs[p].req)]
        /\ runs' = [runs EXCEPT ![p] = AfterSnapshot(r)]
        /\ UNCHANGED <<projects, competitors, reports, del, rep, lst, apiKey, panel, extracted, dels, pages, changes, now, started>>

\* prisma.snapshot.create inserts the row
CreateSnapshot(p) ==
    /\ runs[p].pc = "createSnapshot"
    /\ FindPageById(runs[p].monitoredPageId) # {}
    /\ snapshots' = Append(snapshots, NewSnapshotRow(runs[p]))
    /\ owner' = [owner EXCEPT !.snap = Append(@, runs[p].req)]
    /\ runs' = [runs EXCEPT ![p] =
            AfterSnapshot([@ EXCEPT !.newSnapshot = Some(NewSnapshotRow(runs[p]))])]
    /\ UNCHANGED <<projects, competitors, reports, del, rep, lst, apiKey, panel, extracted, dels, pages, changes, now, started>>

\* prisma.change.create inserts the TEXT change
CreateTextChange(p) ==
    /\ runs[p].pc = "createTextChange"
    /\ ChangeForeignKeys(TextChangeRow(runs[p]))
    /\ changes' = Append(changes, TextChangeRow(runs[p]))
    /\ owner' = [owner EXCEPT !.chg = Append(@, runs[p].req)]
    /\ runs' = [runs EXCEPT ![p] =
            AfterTextChange([@ EXCEPT !.change = Some(TextChangeRow(runs[p]))])]
    /\ UNCHANGED <<projects, competitors, reports, del, rep, lst, apiKey, panel, extracted, dels, pages, snapshots, now, started>>

\* CreatePriceChange returning the PRICE change whatever was attached before
CreatePriceChangeReturned(p) ==
    /\ runs[p].pc = "createPriceChange"
    /\ ChangeForeignKeys(PriceChangeRow(runs[p]))
    /\ changes' = Append(changes, PriceChangeRow(runs[p]))
    /\ owner' = [owner EXCEPT !.chg = Append(@, runs[p].req)]
    /\ runs' = [runs EXCEPT ![p] =
            Respond([@ EXCEPT !.change = Some(PriceChangeRow(runs[p]))], 201)]
    /\ UNCHANGED <<projects, competitors, reports, del, rep, lst, apiKey, panel, extracted, dels, pages, snapshots, now, started>>

\* prisma.change.create inserts the PRICE change
CreatePriceChange(p) ==
    /\ runs[p].pc = "createPriceChange"
    /\ ChangeForeignKeys(PriceChangeRow(runs[p]))
    /\ changes' = Append(changes, PriceChangeRow(runs[p]))
    /\ owner' = [owner EXCEPT !.chg = Append(@, runs[p].req)]
    /\ runs' = [runs EXCEPT ![p] =
            Respond([@ EXCEPT !.change =
                        IF @ = Null THEN Some(PriceChangeRow(runs[p])) ELSE @], 201)]
    /\ UNCHANGED <<projects, competitors, reports, del, rep, lst, apiKey, panel, extracted, dels, pages, snapshots, now, started>>

\* the awaits on the database
DbCalls == {"findPage", "findPrevious", "createSnapshot", "createTextChange",
            "createPriceChange"}

\* the pending database call rejects (storage unreachable, or a foreign key
\* of the row names a row that is gone): nothing is written by it and the
\* catch block answers 500
DbFails(p) ==
    /\ runs[p].pc \in DbCalls
    /\ runs' = [runs EXCEPT ![p] = Catch(@, "storage")]
    /\ UNCHANGED <<projects, competitors, reports, del, rep, lst, apiKey, panel, extracted, dels, pages, snapshots, changes, now, started, owner>>

Next ==
    \/ \E p \in Slots, raw \in RawPageIds : ReceiveInvalid(p, raw)
    \/ \E p \in Slots, raw \in RawPageIds : Receive(p, raw)
    \/ \E p \in Slots : PageNotFound(p)
    \/ \E p \in Slots : PageFound(p)
    \/ \E p \in Slots : LoadPrevious(p)
    \/ \E p \in Slots, html \in HtmlSamples, date \in {now, now + 1} :
          ScrapeOk(p, html, date)
    \/ \E p \in Slots, error \in FetchErrors : ScrapeFails(p, error)
    \/ \E p \in Slots : CreateSnapshot(p)
    \/ \E p \in Slots : CreateTextChange(p)
    \/ \E p \in Slots : CreatePriceChange(p)
    \/ \E p \in Slots : DbFails(p)

Spec == Init /\ [][Next]_vars

(***************************************************************************)
(* DELETE /api/monitored-pages/[pageId].                                   *)
(***************************************************************************)
\* a request arrives with a parameter parsePageId rejects: 400
DeleteInvalid(raw) ==
    /\ del.pc \in {"idle", "done"}
    /\ started < MaxRuns
    /\ parsePageId(raw) = Null
    /\ started' = started + 1
    /\ del' = [IdleDelete EXCEPT !.pc = "done", !.req = started + 1, !.status = 400]
    /\ UNCHANGED <<pages, snapshots, changes, runs, now, owner,
                   projects, competitors, reports, rep, lst, apiKey, panel, extracted, dels>>

\* a request arrives with a valid id: prisma.monitoredPage.findUnique is called
DeleteReceive(raw) ==
    /\ del.pc \in {"idle", "done"}
    /\ started < MaxRuns
    /\ parsePageId(raw) # Null
    /\ started' = started + 1
    /\ del' = [IdleDelete EXCEPT !.pc = "findPage", !.req = started + 1,
                                 !.monitoredPageId = Val(parsePageId(raw))]
    /\ UNCHANGED <<pages, snapshots, changes, runs, now, owner,
                   projects, competitors, reports, rep, lst, apiKey, panel, extracted, dels>>

\* findUnique finds no page: 404
DeletePageNotFound ==
    /\ del.pc = "findPage"
    /\ FindPageById(del.monitoredPageId) = {}
    /\ del' = [del EXCEPT !.pc = "done", !.status = 404]
    /\ UNCHANGED <<pages, snapshots, changes, runs, now, started, owner,
                   projects, competitors, reports, rep, lst, apiKey, panel, extracted, dels>>

\* findUnique returns the page: the transaction is sent
DeletePageFound ==
    /\ del.pc = "findPage"
    /\ FindPageById(del.monitoredPageId) # {}
    /\ del' = [del EXCEPT !.pc = "transaction"]
    /\ UNCHANGED <<pages, snapshots, changes, runs, now, started, owner,
                   projects, competitors, reports, rep, lst, apiKey, panel, extracted, dels>>

\* the rows left once the rows of page pageId are deleted
WithoutPage(rows, pageId) == SelectSeq(rows, LAMBDA row : row.monitoredPageId # pageId)

\* DeleteCommit with snapshot.deleteMany alone: the changes stay and lose
\* their references (ON DELETE SET NULL)
DeleteCommitSetNull ==
    /\ del.pc = "transaction"
    /\ FindPageById(del.monitoredPageId) # {}
    /\ changes' = [i \in DOMAIN changes |->
                      IF changes[i].monitoredPageId = del.monitoredPageId
                      THEN [changes[i] EXCEPT !.oldSnapshotId = 0, !.newSnapshotId = 0]
                      ELSE changes[i]]
    /\ snapshots' = WithoutPage(snapshots, del.monitoredPageId)
    /\ pages' = pages
    /\ del' = [del EXCEPT !.pc = "done", !.status = 200]
    /\ UNCHANGED <<runs, now, started, owner,
                   projects, competitors, reports, rep, lst, apiKey, panel, extracted, dels>>

\* the transaction commits: change.deleteMany, snapshot.deleteMany and
\* monitoredPage.delete take effect at once, and with the page row go the
\* rows that reference it (ON DELETE CASCADE), whenever they were inserted
DeleteCommit ==
    /\ del.pc = "transaction"
    /\ FindPageById(del.monitoredPageId) # {}
    /\ changes' = WithoutPage(changes, del.monitoredPageId)
    /\ snapshots' = WithoutPage(snapshots, del.monitoredPageId)
    /\ pages' = pages \ FindPageById(del.monitoredPageId)
    /\ del' = [del EXCEPT !.pc = "done", !.status = 200]
    /\ UNCHANGED <<runs, now, started, owner,
                   projects, competitors, reports, rep, lst, apiKey, panel, extracted, dels>>

\* findUnique or the transaction rejects: nothing is written (the
\* transaction is rolled back) and the catch block answers 500
DeleteFails ==
    /\ del.pc \in {"findPage", "transaction"}
    /\ del' = [del EXCEPT !.pc = "done", !.status = 500]
    /\ UNCHANGED <<pages, snapshots, changes, runs, now, started, owner,
                   projects, competitors, reports, rep, lst, apiKey, panel, extracted, dels>>

(***************************************************************************)
(* GET /api/monitored-pages/[pageId]/changes.                              *)
(***************************************************************************)
listTake == 20

\* the orders in which a query can return the rows of set S sorted on
\* createdAt (rows with equal createdAt come in any order)
OrderedByCreatedAt(S, descending) ==
    {order \in [1..Cardinality(S) -> S] :
        /\ \A i, j \in DOMAIN order : i # j => order[i] # order[j]
        /\ \A i, j \in DOMAIN order :
              i < j => IF descending THEN order[i].createdAt >= order[j].createdAt
                                     ELSE order[i].createdAt <= order[j].createdAt}

\* a request arrives with a parameter parsePageId rejects: 400
ListInvalid(raw) ==
    /\ lst.pc \in {"idle", "done"}
    /\ started < MaxRuns
    /\ parsePageId(raw) = Null
    /\ started' = started + 1
    /\ lst' = [IdleList EXCEPT !.pc = "done", !.req = started + 1, !.status = 400]
    /\ UNCHANGED <<pages, snapshots, changes, runs, now, owner,
                   projects, competitors, reports, del, rep, apiKey, panel, extracted, dels>>

\* a request arrives with a valid id: prisma.monitoredPage.findUnique is called
ListReceive(raw) ==
    /\ lst.pc \in {"idle", "done"}
    /\ started < MaxRuns
    /\ parsePageId(raw) # Null
    /\ started' = started + 1
    /\ lst' = [IdleList EXCEPT !.pc = "findPage", !.req = started + 1,
                               !.monitoredPageId = Val(parsePageId(raw))]
    /\ UNCHANGED <<pages, snapshots, changes, runs, now, owner,
                   projects, competitors, reports, del, rep, apiKey, panel, extracted, dels>>

\* findUnique answers: 404, or prisma.change.findMany is called
ListFindPage ==
    /\ lst.pc = "findPage"
    /\ lst' = IF FindPageById(lst.monitoredPageId) = {}
              THEN [lst EXCEPT !.pc = "done", !.status = 404]
              ELSE [lst EXCEPT !.pc = "findMany"]
    /\ UNCHANGED <<pages, snapshots, changes, runs, now, started, owner,
                   projects, competitors, reports, del, rep, apiKey, panel, extracted, dels>>

\* findMany({ where: { monitoredPageId }, orderBy: { createdAt: 'desc' }, take: 20 }): 200
ListFindMany ==
    /\ lst.pc = "findMany"
    /\ \E order \in OrderedByCreatedAt(
                {c \in Range(changes) : c.monitoredPageId = lst.monitoredPageId}, TRUE) :
          lst' = [lst EXCEPT !.pc = "done", !.status = 200,
                             !.body = Slice(order, listTake)]
    /\ UNCHANGED <<pages, snapshots, changes, runs, now, started, owner,
                   projects, competitors, reports, del, rep, apiKey, panel, extracted, dels>>

\* a query rejects: the catch block answers 500
ListFails ==
    /\ lst.pc \in {"findPage", "findMany"}
    /\ lst' = [lst EXCEPT !.pc = "done", !.status = 500]
    /\ UNCHANGED <<pages, snapshots, changes, runs, now, started, owner,
                   projects, competitors, reports, del, rep, apiKey, panel, extracted, dels>>

\* capture runs together with deletions and listings of pages
NextPages ==
    \/ Next
    \/ \E raw \in RawPageIds : DeleteInvalid(raw)
    \/ \E raw \in RawPageIds : DeleteReceive(raw)
    \/ DeletePageNotFound
    \/ DeletePageFound
    \/ DeleteCommit
    \/ DeleteFails
    \/ \E raw \in RawPageIds : ListInvalid(raw)
    \/ \E raw \in RawPageIds : ListReceive(raw)
    \/ ListFindPage
    \/ ListFindMany
    \/ ListFails

SpecPages == Init /\ [][NextPages]_vars

(***************************************************************************)
(* Dates.  A Date is its time value, counted in ticks of the clock; the    *)
(* calendar has DayTicks ticks in a day and MonthDays days in a month, and *)
(* local time has no daylight-saving shift.                                *)
(***************************************************************************)
DayTicks == 2
MonthDays == 9
defaultPeriodDays == 7

\* Date.prototype.getDate: the day of the month, from 1
getDate(t) == ((t \div DayTicks) % MonthDays) + 1

\* Date.prototype.setDate(d): day d of the month of t, at the time of day of
\* t; a d below 1 or past the end of the month counts into the months next to it
setDate(t, d) == t + (d - getDate(t)) * DayTicks

\* the values `new Date()` can return after the clock read t
ClockAfter(t) == {t, t + 1}

\* the dates the sample requests and the stored changes use
DateA == 2 * DayTicks
DateB == DateA + defaultPeriodDays * DayTicks

\* new Date(str).getTime() for the strings the sample requests carry; Null
\* stands for NaN (Invalid Date)
ParseDate(str) ==
    CASE str = "A" -> Some(DateA) [] str = "B" -> Some(DateB)
      [] OTHER -> Null

(***************************************************************************)
(* POST /api/projects/[projectId]/reports.                                 *)
(***************************************************************************)
\* the projectId path parameters a request can carry
RawProjectIds == {"1", "3", "abc"}

\* parseProjectId: Null when the id is not finite or not positive
parseProjectId(raw) ==
    LET id == NumberOf(raw)
    IN  IF id = Null \/ Val(id) <= 0 THEN Null ELSE id

\* the values a date field of the body can have: absent, the empty string,
\* a string that is no date, a date
DateFields == {Null, Some(""), Some("soon"), Some("A"), Some("B")}

\* the bodies request.json() can give: Null when the body is not JSON
Bodies ==
    {Null} \cup
    {Some([periodStart |-> ps, periodEnd |-> pe, useAi |-> u]) :
        ps \in DateFields, pe \in DateFields, u \in {Null, Some(TRUE), Some(FALSE)}}

\* `if (body.periodStart)`: the field is there and is not the empty string
Truthy(field) == field # Null /\ Val(field) # ""

\* InvalidDate without the isNaN test: no date field is ever rejected
InvalidDateUnchecked(field) == FALSE

\* a date field of the body fails to parse
InvalidDate(field) == Truthy(field) /\ ParseDate(Val(field)) = Null

\* the period of the report: the dates of the body, the missing one derived
\* from the other, or the last days before the clock reads read1 (periodEnd)
\* and read2 (periodStart) when the body has neither; then put in order
ResolvePeriod(b, read1, read2) ==
    LET start0 == IF Truthy(b.periodStart) THEN ParseDate(Val(b.periodStart)) ELSE Null
        end0 == IF Truthy(b.periodEnd) THEN ParseDate(Val(b.periodEnd)) ELSE Null
        end1 == IF start0 # Null /\ end0 = Null
                THEN Some(setDate(Val(start0), getDate(Val(start0)) + defaultPeriodDays))
                ELSE end0
        start1 == IF start0 = Null /\ end0 # Null
                  THEN Some(setDate(Val(end0), getDate(Val(end0)) - defaultPeriodDays))
                  ELSE start0
        end2 == IF start1 = Null \/ end1 = Null THEN read1 ELSE Val(end1)
        start2 == IF start1 = Null \/ end1 = Null
                  THEN setDate(read2, getDate(read1) - defaultPeriodDays)
                  ELSE Val(start1)
    IN  IF start2 > end2
        THEN [periodStart |-> end2, periodEnd |-> start2]
        ELSE [periodStart |-> start2, periodEnd |-> end2]

\* body.useAi === undefined ? true : Boolean(body.useAi)
UseAi(b) == IF b.useAi = Null THEN TRUE ELSE Val(b.useAi)

\* the parameter, the body or one of its dates is rejected: 400
ReportInvalid(raw, body) ==
    /\ rep.pc \in {"idle", "done"}
    /\ rep.req < MaxReports
    /\ \/ parseProjectId(raw) = Null
       \/ body = Null
       \/ body # Null /\ (InvalidDate(Val(body).periodStart) \/ InvalidDate(Val(body).periodEnd))
    /\ rep' = [IdleReport EXCEPT !.pc = "done", !.req = rep.req + 1, !.status = 400]
    /\ UNCHANGED <<pages, snapshots, changes, runs, now, started, owner,
                   projects, competitors, reports, del, lst, apiKey, panel, extracted, dels>>

\* a valid request arrives: the period is resolved (the clock is read when
\* the body has no date) and prisma.project.findUnique is called
ReportReceive(raw, body, read1, read2) ==
    /\ rep.pc \in {"idle", "done"}
    /\ rep.req < MaxReports
    /\ parseProjectId(raw) # Null
    /\ body # Null
    /\ ~InvalidDate(Val(body).periodStart) /\ ~InvalidDate(Val(body).periodEnd)
    /\ IF Truthy(Val(body).periodStart) \/ Truthy(Val(body).periodEnd)
       THEN read1 = now /\ read2 = now
       ELSE read1 \in ClockAfter(now) /\ read2 \in ClockAfter(read1)
    /\ now' = read2
    /\ rep' = [IdleReport EXCEPT
                  !.pc = "findProject", !.req = rep.req + 1,
                  !.projectId = Val(parseProjectId(raw)),
                  !.periodStart = Some(ResolvePeriod(Val(body), read1, read2).periodStart),
                  !.periodEnd = Some(ResolvePeriod(Val(body), read1, read2).periodEnd),
                  !.useAi = UseAi(Val(body))]
    /\ UNCHANGED <<pages, snapshots, changes, runs, started, owner,
                   projects, competitors, reports, del, lst, apiKey, panel, extracted, dels>>

\* findUnique finds no project: 404
ReportProjectNotFound ==
    /\ rep.pc = "findProject"
    /\ \A pr \in projects : pr.id # rep.projectId
    /\ rep' = [rep EXCEPT !.pc = "done", !.status = 404]
    /\ UNCHANGED <<pages, snapshots, changes, runs, now, started, owner,
                   projects, competitors, reports, del, lst, apiKey, panel, extracted, dels>>

\* findUnique returns the project: prisma.change.findMany is called
ReportProjectFound ==
    /\ rep.pc = "findProject"
    /\ \E pr \in projects : pr.id = rep.projectId
    /\ rep' = [rep EXCEPT !.pc = "findChanges"]
    /\ UNCHANGED <<pages, snapshots, changes, runs, now, started, owner,
                   projects, competitors, reports, del, lst, apiKey, panel, extracted, dels>>

\* ChangesInPeriod with `lt` for the upper bound
ChangesInPeriodExclusive(projectId, periodStart, periodEnd) ==
    {c \in Range(changes) :
        /\ c.createdAt >= periodStart
        /\ c.createdAt < periodEnd
        /\ \E pg \in pages, cp \in competitors :
              /\ pg.id = c.monitoredPageId
              /\ cp.id = pg.competitorId
              /\ cp.projectId = projectId}

\* where: createdAt gte periodStart, lte periodEnd, and the page of the
\* change belongs to a competitor of the project
ChangesInPeriod(projectId, periodStart, periodEnd) ==
    {c \in Range(changes) :
        /\ c.createdAt >= periodStart
        /\ c.createdAt <= periodEnd
        /\ \E pg \in pages, cp \in competitors :
              /\ pg.id = c.monitoredPageId
              /\ cp.id = pg.competitorId
              /\ cp.projectId = projectId}

NoChangesSummary ==
    <<
      "A", "u", "c", "u", "n", " ", "c", "h", "a", "n", "g", "e", "m", "e",
      "n", "t", " ", "d", "é", "t", "e", "c", "t", "é", " ", "s", "u", "r",
      " ", "l", "e", "s", " ", "p", "a", "g", "e", "s", " ", "s", "u", "r",
      "v", "e", "i", "l", "l", "é", "e", "s", " ", "p", "e", "n", "d", "a",
      "n", "t", " ", "c", "e", "t", "t", "e", " ", "p", "é", "r", "i", "o",
      "d", "e", ".", " ", "/", " ", "N", "o", " ", "c", "h", "a", "n", "g",
      "e", "s", " ", "d", "e", "t", "e", "c", "t", "e", "d", " ", "o", "n",
      " ", "m", "o", "n", "i", "t", "o", "r", "e", "d", " ", "p", "a", "g",
      "e", "s", " ", "d", "u", "r", "i", "n", "g", " ", "t", "h", "i", "s",
      " ", "p", "e", "r", "i", "o", "d", ".">>

SummaryUnavailable ==
    <<
      "R", "é", "s", "u", "m", "é", " ", "I", "A", " ", "i", "n", "d", "i",
      "s", "p", "o", "n", "i", "b", "l", "e", ".", " ", "/", " ", "A", "I",
      " ", "s", "u", "m", "m", "a", "r", "y", " ", "u", "n", "a", "v", "a",
      "i", "l", "a", "b", "l", "e", ".">>

\* the most changes a prompt renders, and the most characters of a pricing
\* preview
maxLines == 200
MAX_PRICING_JSON_LENGTH == 400

\* the one character U+2026
Ellipsis == "..."

\* truncateForPrompt with no cut
truncateForPromptWhole(value, maxLen) ==
    IF value = Null \/ Len(Val(value)) = 0 THEN <<"n", "u", "l", "l">>
    ELSE Val(value)

\* truncateForPrompt: 'null' for no value or the empty string, the value when
\* it is short enough, else its first maxLen characters and an ellipsis
truncateForPrompt(value, maxLen) ==
    IF value = Null \/ Len(Val(value)) = 0 THEN <<"n", "u", "l", "l">>
    ELSE IF Len(Val(value)) <= maxLen THEN Val(value)
    ELSE Slice(Val(value), maxLen) \o <<Ellipsis>>

\* the page of a change, as `include: { monitoredPage: ... }` returns it
PageOfChange(change) == CHOOSE pg \in pages : pg.id = change.monitoredPageId

\* the line of one change: the fields the template prints, the competitor
\* by its id; pricing holds the two previews a PRICE line ends with
PromptLine(change) ==
    [date |-> change.createdAt,
     competitor |-> PageOfChange(change).competitorId,
     url |-> PageOfChange(change).url,
     changeType |-> change.changeType,
     field |-> change.field,
     summary |-> change.changeSummary,
     pricing |->
        IF change.changeType = "PRICE"
        THEN Some(<<truncateForPrompt(Some(change.oldValue), MAX_PRICING_JSON_LENGTH),
                    truncateForPrompt(Some(change.newValue), MAX_PRICING_JSON_LENGTH)>>)
        ELSE Null]

\* buildChangesPrompt without the slice
buildChangesPromptUncapped(found) ==
    [none |-> Len(found) = 0,
     lines |-> [i \in 1..Len(found) |-> PromptLine(found[i])]]

\* buildChangesPrompt: the fixed sentence for no change (none), else the
\* lines of the first maxLines changes, joined by newlines
buildChangesPrompt(found) ==
    [none |-> Len(found) = 0,
     lines |-> [i \in 1..Min(Len(found), maxLines) |-> PromptLine(found[i])]]

\* GenerateAiReportStart without the shortcut for an empty list of changes
GenerateAiReportStartAlwaysCalls(found) ==
    IF ~apiKey THEN [result |-> Null, call |-> FALSE]
    ELSE [result |-> Null, call |-> TRUE]

\* GenerateAiReportStart without the test of OPENAI_API_KEY
GenerateAiReportStartWithoutKey(found) ==
    IF Len(found) = 0
    THEN [result |-> Some([aiSummary |-> NoChangesSummary, highlights |-> <<>>]),
          call |-> FALSE]
    ELSE [result |-> Null, call |-> TRUE]

\* generateAiReport up to its await: Null when it returns null at once, the
\* static result when there is no change, else "call" (the request to
\* openai.chat.completions.create is sent)
GenerateAiReportStart(found) ==
    IF ~apiKey THEN [result |-> Null, call |-> FALSE]
    ELSE IF Len(found) = 0
    THEN [result |-> Some([aiSummary |-> NoChangesSummary, highlights |-> <<>>]),
          call |-> FALSE]
    ELSE [result |-> Null, call |-> TRUE]

\* what generateAiReport gives when an exception leaves it, which its try
\* blocks exclude: neither Null nor a result
Thrown == <<"thrown", "thrown">>

\* POST once generateAiReport has returned aiResult: prisma.report.create is
\* called; an exception goes to the catch block of POST
WithAiResult(r, aiResult) ==
    IF aiResult = Thrown
    THEN [r EXCEPT !.pc = "done", !.status = 500, !.thrown = "synthesis"]
    ELSE
    [r EXCEPT !.pc = "createReport",
              !.aiSummary = IF aiResult = Null THEN Null ELSE Some(Val(aiResult).aiSummary),
              !.highlights = IF aiResult = Null THEN Null ELSE Some(Val(aiResult).highlights)]

\* POST once findMany has returned found: the report is created without AI,
\* or generateAiReport runs up to its call of OpenAI, which carries the prompt
AfterFindMany(r0, found) ==
    LET r == [r0 EXCEPT !.changes = found]
        start == GenerateAiReportStart(found)
    IN  IF ~r.useAi THEN [r EXCEPT !.pc = "createReport"]
        ELSE IF start.call
        THEN [r EXCEPT !.pc = "openai", !.called = TRUE,
                       !.prompt = Some(buildChangesPrompt(found))]
        ELSE WithAiResult(r, start.result)

\* findMany returns the changes of the period, oldest first
ReportFindChanges ==
    /\ rep.pc = "findChanges"
    /\ \E found \in OrderedByCreatedAt(
                ChangesInPeriod(rep.projectId, Val(rep.periodStart), Val(rep.periodEnd)),
                FALSE) :
          rep' = AfterFindMany(rep, found)
    /\ UNCHANGED <<pages, snapshots, changes, runs, now, started, owner,
                   projects, competitors, reports, del, lst, apiKey, panel, extracted, dels>>

\* how the call of OpenAI can end: it throws (network, API error, timeout
\* of the client), the completion has no content, the content is no JSON,
\* the content is the JSON null, or the content is a JSON object whose
\* summary is a string or is not (Null) and whose highlights are an array
\* or are not (Null)
AiOutcomes ==
    {[kind |-> k, summary |-> Null, highlights |-> Null] :
        k \in {"throws", "empty", "unparseable", "parsed null"}}
    \cup
    {[kind |-> "parsed", summary |-> sm, highlights |-> hl] :
        sm \in {Null, Some(<<" ">>), Some(<<"o", "k">>)},
        hl \in {Null, Some(<<"h">>)}}

\* GenerateAiReportEnd without the try blocks: what is thrown goes up to POST
GenerateAiReportEndUncaught(outcome) ==
    IF outcome.kind \in {"throws", "unparseable", "parsed null"} THEN Thrown
    ELSE IF outcome.kind = "empty" THEN Null
    ELSE Some([aiSummary |->
                  IF outcome.summary # Null /\ Len(Trim(Val(outcome.summary))) > 0
                  THEN Val(outcome.summary) ELSE SummaryUnavailable,
               highlights |->
                  IF outcome.highlights # Null THEN Val(outcome.highlights) ELSE <<>>])

\* generateAiReport from its await on: Null, or the result.  For the JSON
\* null, parsed.summary throws a TypeError, which the outer catch takes.
GenerateAiReportEnd(outcome) ==
    IF outcome.kind # "parsed" THEN Null
    ELSE Some([aiSummary |->
                  IF outcome.summary # Null /\ Len(Trim(Val(outcome.summary))) > 0
                  THEN Val(outcome.summary) ELSE SummaryUnavailable,
               highlights |->
                  IF outcome.highlights # Null THEN Val(outcome.highlights) ELSE <<>>])

\* the call of OpenAI ends: prisma.report.create is called
ReportAiEnds(outcome) ==
    /\ rep.pc = "openai"
    /\ outcome \in AiOutcomes
    /\ rep' = WithAiResult([rep EXCEPT !.outcome = outcome.kind],
                           GenerateAiReportEnd(outcome))
    /\ UNCHANGED <<pages, snapshots, changes, runs, now, started, owner,
                   projects, competitors, reports, del, lst, apiKey, panel, extracted, dels>>

\* the row prisma.report.create inserts
NewReportRow(r, date) ==
    [id |-> Len(reports) + 1,
     projectId |-> r.projectId,
     periodStart |-> r.periodStart,
     periodEnd |-> r.periodEnd,
     generatedAt |-> date,
     aiSummary |-> r.aiSummary,
     highlights |-> r.highlights,
     pdfUrl |-> Null]

\* prisma.report.create inserts the row: 201 with the row
ReportCreate(date) ==
    /\ rep.pc = "createReport"
    /\ date \in ClockAfter(now)
    /\ \E pr \in projects : pr.id = rep.projectId
    /\ now' = date
    /\ reports' = Append(reports, NewReportRow(rep, date))
    /\ rep' = [rep EXCEPT !.pc = "done", !.status = 201,
                          !.created = Some(NewReportRow(rep, date))]
    /\ UNCHANGED <<pages, snapshots, changes, runs, started, owner,
                   projects, competitors, del, lst, apiKey, panel, extracted, dels>>

\* a call of the database rejects: the catch block answers 500
ReportFails ==
    /\ rep.pc \in {"findProject", "findChanges", "createReport"}
    /\ rep' = [rep EXCEPT !.pc = "done", !.status = 500, !.thrown = "storage"]
    /\ UNCHANGED <<pages, snapshots, changes, runs, now, started, owner,
                   projects, competitors, reports, del, lst, apiKey, panel, extracted, dels>>

\* a stored snapshot: capture of html with a given id, page and time
StoredSnapshot(id, pageId, html, date) ==
    [EarlierSnapshot(pageId, html) EXCEPT !.id = id, !.capturedAt = date]

\* the stored TEXT change of a run that captured new after old
StoredTextChange(id, old, new, date) ==
    [id |-> id,
     createdAt |-> date,
     monitoredPageId |-> new.monitoredPageId,
     oldSnapshotId |-> old.id,
     newSnapshotId |-> new.id,
     changeType |-> "TEXT",
     field |-> "content",
     oldValue |-> Slice(Coalesce(old.extractedText, <<>>), maxStoredLength),
     newValue |-> Slice(Coalesce(new.extractedText, <<>>), maxStoredLength),
     changeSummary |-> <<Len(Coalesce(old.extractedText, <<>>)),
                         Len(Coalesce(new.extractedText, <<>>))>>]

\* the stored PRICE change of a run that captured new after old
StoredPriceChange(id, old, new, date) ==
    [id |-> id,
     createdAt |-> date,
     monitoredPageId |-> new.monitoredPageId,
     oldSnapshotId |-> old.id,
     newSnapshotId |-> new.id,
     changeType |-> "PRICE",
     field |-> "pricing",
     oldValue |-> Slice(JsonStringify(old.extractedPricing), maxStoredLength),
     newValue |-> Slice(JsonStringify(new.extractedPricing), maxStoredLength),
     changeSummary |-> <<>>]

\* the captures earlier runs have stored, as <<page, document, time>>: pages
\* 1 and 2 belong to project 1, page 3 to project 2
StoredCaptures ==
    <<<<1, HtmlOne, 0>>,
      <<2, HtmlPricesAB, 1>>,
      <<3, HtmlPricesAB, 1>>,
      <<1, HtmlLong, DateA - 1>>,
      <<2, HtmlEmpty, DateA>>,
      <<3, HtmlEmpty, DateA>>,
      <<1, HtmlEmpty, DateB>>,
      <<1, HtmlLong, DateB + 1>>>>

\* the Snapshot rows of those captures
StoredSnapshots ==
    [k \in DOMAIN StoredCaptures |->
        StoredSnapshot(k, StoredCaptures[k][1], StoredCaptures[k][2], StoredCaptures[k][3])]

\* the changes those runs have stored, as <<type, old capture, new capture,
\* time>>
StoredRuns ==
    <<<<"TEXT", 1, 4, DateA - 1>>,
      <<"TEXT", 2, 5, DateA>>,
      <<"PRICE", 2, 5, DateA>>,
      <<"TEXT", 3, 6, DateA>>,
      <<"PRICE", 3, 6, DateA>>,
      <<"TEXT", 4, 7, DateB>>,
      <<"TEXT", 7, 8, DateB + 1>>>>

\* the Change rows of those runs over the stored Snapshot rows
StoredChanges(stored) ==
    [k \in DOMAIN StoredRuns |->
        IF StoredRuns[k][1] = "TEXT"
        THEN StoredTextChange(k, stored[StoredRuns[k][2]], stored[StoredRuns[k][3]],
                              StoredRuns[k][4])
        ELSE StoredPriceChange(k, stored[StoredRuns[k][2]], stored[StoredRuns[k][3]],
                               StoredRuns[k][4])]

\* the first tick of a month that comes after the stored rows
MonthStart == 2 * MonthDays * DayTicks

\* where the clock can stand when the first request arrives: on the last
\* tick of a month, on the last tick of the first day of a month, or on the
\* first tick of a day
ClockStarts == {MonthStart - 1, MonthStart + DayTicks - 1, MonthStart + DayTicks}

\* Storage holds the captures and changes of earlier runs; the key of
\* OpenAI is set or not; no request is in flight.
InitReports ==
    /\ projects = {[id |-> 1], [id |-> 2]}
    /\ competitors = {[id |-> 1, projectId |-> 1], [id |-> 2, projectId |-> 2]}
    /\ pages = {[id |-> 1, url |-> "u1", competitorId |-> 1],
                [id |-> 2, url |-> "u2", competitorId |-> 1],
                [id |-> 3, url |-> "u2", competitorId |-> 2]}
    /\ InitIdle
    /\ snapshots = StoredSnapshots
    /\ changes = StoredChanges(snapshots)
    /\ reports = <<>>
    /\ now \in ClockStarts
    /\ owner = [snap |-> [i \in DOMAIN snapshots |-> 0],
                chg |-> [i \in DOMAIN changes |-> 0]]
    /\ apiKey \in BOOLEAN
    /\ panel = IdlePanel
    /\ dels = IdleDeletes
    /\ extracted = NoExtraction

NextReports ==
    \/ \E raw \in RawProjectIds, body \in Bodies : ReportInvalid(raw, body)
    \/ \E raw \in RawProjectIds, body \in Bodies :
          \E read1 \in ClockAfter(now) : \E read2 \in ClockAfter(read1) :
              ReportReceive(raw, body, read1, read2)
    \/ ReportProjectNotFound
    \/ ReportProjectFound
    \/ ReportFindChanges
    \/ \E outcome \in AiOutcomes : ReportAiEnds(outcome)
    \/ \E date \in ClockAfter(now) : ReportCreate(date)
    \/ ReportFails

SpecReports == InitReports /\ [][NextReports]_vars

(***************************************************************************)
(* Capture runs, one at a time, on a page whose documents are longer than  *)
(* what a change row stores.                                               *)
(***************************************************************************)
InitLong ==
    /\ projects = {[id |-> 1]}
    /\ competitors = {[id |-> 1, projectId |-> 1]}
    /\ pages = {[id |-> 1, url |-> "u3", competitorId |-> 1]}
    /\ InitIdle
    /\ snapshots = <<EarlierSnapshot(1, HtmlOne)>>
    /\ changes = <<>>
    /\ reports = <<>>
    /\ now = 0
    /\ owner = [snap |-> [i \in DOMAIN snapshots |-> 0], chg |-> <<>>]
    /\ apiKey = FALSE
    /\ panel = IdlePanel
    /\ dels = IdleDeletes
    /\ extracted = NoExtraction

\* the runs come one after the other: each request is received once the
\* one before it is answered
NextLong ==
    \/ \E raw \in RawPageIds : ReceiveInvalid(1, raw)
    \/ \E raw \in RawPageIds : Receive(1, raw)
    \/ PageNotFound(1)
    \/ PageFound(1)
    \/ LoadPrevious(1)
    \/ \E html \in HtmlSamples : ScrapeOk(1, html, now + 1)
    \/ \E error \in FetchErrors : ScrapeFails(1, error)
    \/ CreateSnapshot(1)
    \/ CreateTextChange(1)
    \/ CreatePriceChange(1)
    \/ DbFails(1)

SpecLong == InitLong /\ [][NextLong]_vars

\* runs that come one after the other on the pages of Init
SpecSequential == Init /\ [][NextLong]_vars

(***************************************************************************)
(* All handlers together: capture runs one at a time, page deletions,      *)
(* listings and report requests, interleaved step by step.                 *)
(***************************************************************************)
\* the bodies of the report requests: no JSON, an unparseable date, no date
ReportBodies ==
    {Null,
     Some([periodStart |-> Some("soon"), periodEnd |-> Null, useAi |-> Null]),
     Some([periodStart |-> Null, periodEnd |-> Null, useAi |-> Null])}

\* as Init, with the key of OpenAI set
InitAll ==
    /\ InitProjects
    /\ InitIdle
    /\ snapshots = <<EarlierSnapshot(1, HtmlOne)>>
    /\ changes = <<>>
    /\ reports = <<>>
    /\ now = 0
    /\ owner = [snap |-> [i \in DOMAIN snapshots |-> 0], chg |-> <<>>]
    /\ apiKey = TRUE
    /\ panel = IdlePanel
    /\ dels = IdleDeletes
    /\ extracted = NoExtraction

\* a request arrives at one of the handlers
ArrivesAll ==
    \/ \E raw \in RawPageIds : ReceiveInvalid(1, raw)
    \/ \E raw \in RawPageIds : Receive(1, raw)
    \/ \E raw \in RawPageIds : DeleteInvalid(raw)
    \/ \E raw \in RawPageIds : DeleteReceive(raw)
    \/ \E raw \in RawPageIds : ListInvalid(raw)
    \/ \E raw \in RawPageIds : ListReceive(raw)
    \/ \E raw \in RawProjectIds, body \in ReportBodies : ReportInvalid(raw, body)
    \/ \E raw \in RawProjectIds, body \in ReportBodies :
          ReportReceive(raw, body, now, now)

\* a handler takes its next step
StepsAll ==
    \/ PageNotFound(1)
    \/ PageFound(1)
    \/ LoadPrevious(1)
    \/ \E html \in HtmlSamples : ScrapeOk(1, html, now + 1)
    \/ \E error \in FetchErrors : ScrapeFails(1, error)
    \/ CreateSnapshot(1)
    \/ CreateTextChange(1)
    \/ CreatePriceChange(1)
    \/ DbFails(1)
    \/ DeletePageNotFound
    \/ DeletePageFound
    \/ DeleteCommit
    \/ DeleteFails
    \/ ListFindPage
    \/ ListFindMany
    \/ ListFails
    \/ ReportProjectNotFound
    \/ ReportProjectFound
    \/ ReportFindChanges
    \/ \E outcome \in AiOutcomes : ReportAiEnds(outcome)
    \/ ReportCreate(now)
    \/ ReportFails

\* at most MaxRequests requests arrive in one behaviour, of all kinds
NextAll ==
    \/ started + rep.req < MaxRequests /\ ArrivesAll
    \/ StepsAll

SpecAll == InitAll /\ [][NextAll]_vars

(***************************************************************************)
(* Report requests over many stored changes: the prompt of the call of     *)
(* OpenAI.                                                                 *)
(***************************************************************************)
\* how many changes the project has in the period
PromptSizes == {1, 2, maxLines - 1, maxLines, maxLines + 1, maxLines + 60}

\* which of the stored changes are PRICE changes and how long their values are
PromptVariants == 1..4

\* the lengths of the stored values: around the cut of a preview, and short
PayloadLengths ==
    <<MAX_PRICING_JSON_LENGTH - 1, MAX_PRICING_JSON_LENGTH,
      MAX_PRICING_JSON_LENGTH + 1, 2>>

\* the first changes have the longer values
PayloadLength(k, v) == IF k > 8 THEN 2 ELSE PayloadLengths[((k + v) % 4) + 1]

\* a stored value of len characters
Payload(c, len) == <<"[">> \o Rep(c, len - 2) \o <<"]">>

\* the k-th stored change: of page 1, between its captures 1 and 4, made at
\* time k
PromptChange(k, v) ==
    IF (k + v) % 2 = 0
    THEN [id |-> k, createdAt |-> k, monitoredPageId |-> 1,
          oldSnapshotId |-> 1, newSnapshotId |-> 4,
          changeType |-> "PRICE", field |-> "pricing",
          oldValue |-> Payload("1", PayloadLength(k, v)),
          newValue |-> Payload("2", PayloadLength(k + 1, v)),
          changeSummary |-> <<>>]
    ELSE [id |-> k, createdAt |-> k, monitoredPageId |-> 1,
          oldSnapshotId |-> 1, newSnapshotId |-> 4,
          changeType |-> "TEXT", field |-> "content",
          oldValue |-> Payload("a", PayloadLength(k, v)),
          newValue |-> Payload("b", PayloadLength(k + 1, v)),
          changeSummary |-> <<PayloadLength(k, v), PayloadLength(k + 1, v)>>]

\* Storage holds n changes of project 1, all made in the period of a report
\* request that has found its project; the key of OpenAI is set.
InitPrompt ==
    /\ projects = {[id |-> 1], [id |-> 2]}
    /\ competitors = {[id |-> 1, projectId |-> 1], [id |-> 2, projectId |-> 2]}
    /\ pages = {[id |-> 1, url |-> "u1", competitorId |-> 1],
                [id |-> 2, url |-> "u2", competitorId |-> 1],
                [id |-> 3, url |-> "u2", competitorId |-> 2]}
    /\ runs = [p \in Slots |-> IdleRun]
    /\ del = IdleDelete
    /\ lst = IdleList
    /\ started = 0
    /\ snapshots = StoredSnapshots
    /\ \E n \in PromptSizes, v \in PromptVariants :
          /\ changes = [k \in 1..n |-> PromptChange(k, v)]
          /\ now = n + 1
          /\ rep = [IdleReport EXCEPT !.pc = "findChanges", !.req = 1, !.projectId = 1,
                                      !.periodStart = Some(0), !.periodEnd = Some(n),
                                      !.useAi = TRUE]
    /\ reports = <<>>
    /\ owner = [snap |-> [i \in DOMAIN snapshots |-> 0],
                chg |-> [i \in DOMAIN changes |-> 0]]
    /\ apiKey = TRUE
    /\ panel = IdlePanel
    /\ dels = IdleDeletes
    /\ extracted = NoExtraction

\* findMany returns the changes of the period, oldest first, when the table
\* holds them in the order of their distinct times
ReportFindChangesStored ==
    /\ rep.pc = "findChanges"
    /\ \A i \in DOMAIN changes : changes[i].createdAt = i
    /\ Range(changes) =
          ChangesInPeriod(rep.projectId, Val(rep.periodStart), Val(rep.periodEnd))
    /\ rep' = AfterFindMany(rep, changes)
    /\ UNCHANGED <<pages, snapshots, changes, runs, now, started, owner,
                   projects, competitors, reports, del, lst, apiKey, panel, extracted, dels>>

NextPrompt ==
    \/ ReportFindChangesStored
    \/ \E outcome \in AiOutcomes : ReportAiEnds(outcome)
    \/ ReportCreate(now)
    \/ ReportFails

SpecPrompt == InitPrompt /\ [][NextPrompt]_vars

(***************************************************************************)
(* The two pricing passes on sample documents: scrapePage runs             *)
(* extractPricingFromHtml on the raw markup, then the route runs           *)
(* extractPricingFromText on the normalized text.                          *)
(***************************************************************************)
\* the product blocks the sample markups are made of (sku 0 stands for the
\* data-sku of the block, set per block)
ArticleKinds ==
    << \* name and display price "79,90 €"
       [sku |-> 0, name |-> Some(<<"A">>), priceData |-> Null,
        priceText |-> Some(<<"7", "9", ",", "9", "0", " ", "€">>), availability |-> Null],
       \* data-price="79.90" next to a display text without a number
       [sku |-> 0, name |-> Some(<<" ", "B", " ">>), priceData |-> Some(<<"7", "9", ".", "9", "0">>),
        priceText |-> Some(<<"N", "/", "A">>), availability |-> Some(<<" ", "o", "k", " ">>)],
       \* no product-name element
       [sku |-> 0, name |-> Null, priceData |-> Null,
        priceText |-> Some(<<"5", " ", "€">>), availability |-> Null],
       \* no product-price element
       [sku |-> 0, name |-> Some(<<"D">>), priceData |-> Null,
        priceText |-> Null, availability |-> Some(<<"o", "k">>)],
       \* a display price without any digit: "Sur devis"
       [sku |-> 0, name |-> Some(<<"E">>), priceData |-> Null,
        priceText |-> Some(<<"S", "u", "r", " ", "d", "e", "v", "i", "s">>),
        availability |-> Null],
       \* thousands separator and decimal comma: "1.234,56 €"
       [sku |-> 0, name |-> Some(<<"F">>), priceData |-> Null,
        priceText |-> Some(<<"1", ".", "2", "3", "4", ",", "5", "6", " ", "€">>),
        availability |-> Null],
       \* two commas: "1,234,56"
       [sku |-> 0, name |-> Some(<<"G">>), priceData |-> Null,
        priceText |-> Some(<<"1", ",", "2", "3", "4", ",", "5", "6">>), availability |-> Null],
       \* punctuation only: "€ ."
       [sku |-> 0, name |-> Some(<<"H">>), priceData |-> Null,
        priceText |-> Some(<<"€", " ", ".">>), availability |-> Null],
       \* "12." and a data-price of ",5"
       [sku |-> 0, name |-> Some(<<"I">>), priceData |-> Null,
        priceText |-> Some(<<"1", "2", ".">>), availability |-> Null],
       [sku |-> 0, name |-> Some(<<"J">>), priceData |-> Some(<<",", "5">>),
        priceText |-> Null, availability |-> Null],
       \* neither name nor price
       [sku |-> 0, name |-> Null, priceData |-> Null,
        priceText |-> Null, availability |-> Null] >>

\* numbers of product blocks of the sample markups
MarkupSizes == {0, 1, 4, MAX_ITEMS - 1, MAX_ITEMS, MAX_ITEMS + 1, 2 * MAX_ITEMS + 20}
\* variant 0 repeats the first kind of block, variant v cycles through the
\* kinds starting after kind v
MarkupVariants == 0..Len(ArticleKinds)

\* the article blocks of sample markup (n, v); block k has data-sku k
Markup(n, v) ==
    [k \in 1..n |->
        [ArticleKinds[IF v = 0 THEN 1 ELSE ((k + v) % Len(ArticleKinds)) + 1]
            EXCEPT !.sku = k]]

\* the lines the sample texts are made of, four characters each: two with
\* a price, one without
TextLineKinds ==
    << <<"p", " ", "9", "€">>, <<"n", "o", "n", "e">>, <<"$", "5", " ", "x">> >>

TextSizes == {0, MAX_ITEMS, MAX_ITEMS + 1, MAX_ITEMS + 10}
TextVariants == 0..1

\* sample text (n, v): n lines separated by "\n"; with variant 0 every line
\* has a price, with variant 1 the three kinds of line alternate
TextOfLines(n, v) ==
    [i \in 1..(5 * n - 1) |->
        IF i % 5 = 0 THEN "\n"
        ELSE TextLineKinds[IF v = 0 THEN 1 ELSE ((i \div 5) % 3) + 1][i % 5]]

InitExtract ==
    /\ InitProjects
    /\ InitIdle
    /\ snapshots = <<>>
    /\ changes = <<>>
    /\ reports = <<>>
    /\ now = 0
    /\ owner = [snap |-> <<>>, chg |-> <<>>]
    /\ apiKey = FALSE
    /\ panel = IdlePanel
    /\ dels = IdleDeletes
    /\ \E n \in MarkupSizes, v \in MarkupVariants, m \in TextSizes, w \in TextVariants :
          extracted = [NoExtraction EXCEPT !.pc = "fetched",
                                           !.articles = Markup(n, v),
                                           !.extractedText = TextOfLines(m, w)]

\* scrapePage: const pricingData = extractPricingFromHtml(rawHtml)
ScrapeExtracts ==
    /\ extracted.pc = "fetched"
    /\ extracted' = [extracted EXCEPT
                        !.pc = "scraped",
                        !.pricingData = Some(extractPricingFromHtml(extracted.articles))]
    /\ UNCHANGED <<pages, snapshots, changes, runs, now, started, owner,
                   projects, competitors, reports, del, rep, lst, apiKey, panel, dels>>

\* the route: const pricingData = extractPricingFromText(extractedText ?? '')
RouteExtracts ==
    /\ extracted.pc = "scraped"
    /\ extracted' = [extracted EXCEPT
                        !.pc = "done",
                        !.looseItems = Some(extractPricingFromText(extracted.extractedText))]
    /\ UNCHANGED <<pages, snapshots, changes, runs, now, started, owner,
                   projects, competitors, reports, del, rep, lst, apiKey, panel, dels>>

NextExtract == ScrapeExtracts \/ RouteExtracts

SpecExtract == InitExtract /\ [][NextExtract]_vars

(***************************************************************************)
(* DELETE /api/projects/[projectId] and                                    *)
(* DELETE /api/competitors/[competitorId].  Call k is the k-th request     *)
(* received; the calls run concurrently.                                   *)
(***************************************************************************)
\* parseCompetitorId: Null when the id is not finite or not positive
parseCompetitorId(raw) ==
    LET id == NumberOf(raw)
    IN  IF id = Null \/ Val(id) <= 0 THEN Null ELSE id

\* the id parser of the handler of each kind
ParseOwnerId(kind, raw) ==
    IF kind = "project" THEN parseProjectId(raw) ELSE parseCompetitorId(raw)

\* reports stored before the requests arrive: one per project
StoredReports ==
    [k \in 1..2 |->
        [id |-> k, projectId |-> k, periodStart |-> Some(0), periodEnd |-> Some(1),
         generatedAt |-> 1, aiSummary |-> Null, highlights |-> Null, pdfUrl |-> Null]]

\* projects, competitors and pages stored before the requests arrive:
\* competitor 1 of project 1 has pages 1 and 2, competitor 2 of project 2
\* has page 3
StoredProjects == {[id |-> 1], [id |-> 2]}
StoredCompetitors == {[id |-> 1, projectId |-> 1], [id |-> 2, projectId |-> 2]}
StoredPages ==
    {[id |-> 1, url |-> "u1", competitorId |-> 1],
     [id |-> 2, url |-> "u2", competitorId |-> 1],
     [id |-> 3, url |-> "u2", competitorId |-> 2]}

InitDeletes ==
    /\ projects = StoredProjects
    /\ competitors = StoredCompetitors
    /\ pages = StoredPages
    /\ InitIdle
    /\ snapshots = StoredSnapshots
    /\ changes = StoredChanges(snapshots)
    /\ reports = StoredReports
    /\ now = 0
    /\ owner = [snap |-> [i \in DOMAIN snapshots |-> 0],
                chg |-> [i \in DOMAIN changes |-> 0]]
    /\ apiKey = FALSE
    /\ panel = IdlePanel
    /\ extracted = NoExtraction
    /\ dels = IdleDeletes

\* the row the delete of call k names is stored
OwnerStored(k) ==
    IF dels[k].kind = "project" THEN \E pr \in projects : pr.id = dels[k].id
    ELSE \E c \in competitors : c.id = dels[k].id

\* a request arrives with a parameter the id parser rejects: 400
OwnerDeleteInvalid(k, kind, raw) ==
    /\ dels[k].pc = "idle"
    /\ started = k - 1
    /\ ParseOwnerId(kind, raw) = Null
    /\ started' = started + 1
    /\ dels' = [dels EXCEPT ![k] = [IdleOwnerDelete EXCEPT !.pc = "done", !.kind = kind,
                                                          !.status = 400]]
    /\ UNCHANGED <<pages, snapshots, changes, runs, now, owner,
                   projects, competitors, reports, del, rep, lst, apiKey, panel, extracted>>

\* a request arrives with a valid id: prisma.project.delete or
\* prisma.competitor.delete is called
OwnerDeleteReceive(k, kind, raw) ==
    /\ dels[k].pc = "idle"
    /\ started = k - 1
    /\ ParseOwnerId(kind, raw) # Null
    /\ started' = started + 1
    /\ dels' = [dels EXCEPT ![k] = [IdleOwnerDelete EXCEPT !.pc = "delete", !.kind = kind,
                                                          !.id = Val(ParseOwnerId(kind, raw))]]
    /\ UNCHANGED <<pages, snapshots, changes, runs, now, owner,
                   projects, competitors, reports, del, rep, lst, apiKey, panel, extracted>>

\* the competitors in cids go, and with them their pages and the captures
\* and changes of those pages (ON DELETE CASCADE)
CascadeCompetitors(cids) ==
    LET gone == {pg.id : pg \in {pg \in pages : pg.competitorId \in cids}}
    IN  /\ competitors' = {c \in competitors : c.id \notin cids}
        /\ pages' = {pg \in pages : pg.competitorId \notin cids}
        /\ snapshots' = SelectSeq(snapshots, LAMBDA row : row.monitoredPageId \notin gone)
        /\ changes' = SelectSeq(changes, LAMBDA row : row.monitoredPageId \notin gone)

\* prisma.project.delete removes the row and everything that hangs on it: 200
DeleteProjectCommit(k) ==
    /\ dels[k].pc = "delete" /\ dels[k].kind = "project"
    /\ OwnerStored(k)
    /\ projects' = {pr \in projects : pr.id # dels[k].id}
    /\ reports' = SelectSeq(reports, LAMBDA row : row.projectId # dels[k].id)
    /\ CascadeCompetitors({c.id : c \in {c \in competitors : c.projectId = dels[k].id}})
    /\ dels' = [dels EXCEPT ![k] = [@ EXCEPT !.pc = "done", !.status = 200,
                                             !.deletedId = Some(dels[k].id)]]
    /\ UNCHANGED <<runs, now, started, owner, del, rep, lst, apiKey, panel, extracted>>

\* prisma.competitor.delete removes the row and everything that hangs on it: 200
DeleteCompetitorCommit(k) ==
    /\ dels[k].pc = "delete" /\ dels[k].kind = "competitor"
    /\ OwnerStored(k)
    /\ CascadeCompetitors({dels[k].id})
    /\ dels' = [dels EXCEPT ![k] = [@ EXCEPT !.pc = "done", !.status = 200,
                                             !.deletedId = Some(dels[k].id)]]
    /\ UNCHANGED <<runs, now, started, owner, projects, reports,
                   del, rep, lst, apiKey, panel, extracted>>

\* OwnerDeleteGone that answers 404 for a row that is not there
OwnerDeleteGoneNotFound(k) ==
    /\ dels[k].pc = "delete"
    /\ ~OwnerStored(k)
    /\ dels' = [dels EXCEPT ![k] = [@ EXCEPT !.pc = "done", !.status = 404]]
    /\ UNCHANGED <<pages, snapshots, changes, runs, now, started, owner,
                   projects, competitors, reports, del, rep, lst, apiKey, panel, extracted>>

\* the delete finds no row (P2025): the catch block answers 200
OwnerDeleteGone(k) ==
    /\ dels[k].pc = "delete"
    /\ ~OwnerStored(k)
    /\ dels' = [dels EXCEPT ![k] = [@ EXCEPT !.pc = "done", !.status = 200]]
    /\ UNCHANGED <<pages, snapshots, changes, runs, now, started, owner,
                   projects, competitors, reports, del, rep, lst, apiKey, panel, extracted>>

\* the delete rejects for another reason: the catch block answers 500
OwnerDeleteFails(k) ==
    /\ dels[k].pc = "delete"
    /\ dels' = [dels EXCEPT ![k] = [@ EXCEPT !.pc = "done", !.status = 500,
                                             !.thrown = "storage"]]
    /\ UNCHANGED <<pages, snapshots, changes, runs, now, started, owner,
                   projects, competitors, reports, del, rep, lst, apiKey, panel, extracted>>

OwnerKinds == {"project", "competitor"}

NextDeletes ==
    \/ \E k \in DeleteCalls, kind \in OwnerKinds, raw \in RawProjectIds :
          OwnerDeleteInvalid(k, kind, raw)
    \/ \E k \in DeleteCalls, kind \in OwnerKinds, raw \in RawProjectIds :
          OwnerDeleteReceive(k, kind, raw)
    \/ \E k \in DeleteCalls : DeleteProjectCommit(k)
    \/ \E k \in DeleteCalls : DeleteCompetitorCommit(k)
    \/ \E k \in DeleteCalls : OwnerDeleteGone(k)
    \/ \E k \in DeleteCalls : OwnerDeleteFails(k)

SpecDeletes == InitDeletes /\ [][NextDeletes]_vars

(***************************************************************************)
(* CompetitorPagesPanel (CompetitorPagesPanel.tsx): the panel of           *)
(* competitor 1, whose pages are pages 1 and 2.  Call k is the k-th        *)
(* handler call that sends a request.  A handler reads the state of the    *)
(* render it was created in: what it reads after an await is what the      *)
(* state was when the button was clicked.  The server runs each POST       *)
(* /scrape in one step.                                                    *)
(***************************************************************************)
\* the pages the panel lists
PanelPages == {1, 2}

\* the documents the pages serve while the panel is open (none has a price)
PanelDocuments == {HtmlOne, HtmlLong}

\* ChangesState of a page that is being loaded, with the changes shown so far
LoadingState(current) ==
    Some([loading |-> TRUE, error |-> FALSE,
          changes |-> IF current = Null THEN Null ELSE Val(current).changes])

InitPanel ==
    /\ projects = StoredProjects
    /\ competitors = StoredCompetitors
    /\ pages = StoredPages
    /\ InitIdle
    /\ snapshots = [k \in 1..2 |-> StoredSnapshot(k, k, HtmlOne, 0)]
    /\ changes = <<>>
    /\ reports = <<>>
    /\ now = 0
    /\ owner = [snap |-> [i \in DOMAIN snapshots |-> 0], chg |-> <<>>]
    /\ apiKey = FALSE
    /\ panel = IdlePanel
    /\ extracted = NoExtraction
    /\ dels = IdleDeletes

\* the first call slot that is still unused (0 when there is none)
FreeCall ==
    LET free == {k \in PanelCalls : panel.calls[k].pc = "idle"}
    IN  IF free = {} THEN 0 ELSE CHOOSE k \in free : \A o \in free : k <= o

\* the snapshot button of page pageId is clicked (it is not disabled):
\* handleRunSnapshot sets scrapingPageId and sends POST /scrape
RunSnapshotClick(pageId) ==
    /\ FreeCall # 0
    /\ panel.scrapingPageId # Some(pageId)
    /\ panel' = [panel EXCEPT
            !.scrapingPageId = Some(pageId),
            !.calls[FreeCall] =
                [IdleCall EXCEPT !.handler = "handleRunSnapshot", !.pc = "post",
                                 !.pageId = pageId,
                                 !.expandedPageId = panel.expandedPageId,
                                 !.current = panel.changesByPage[pageId]]]
    /\ UNCHANGED <<pages, snapshots, changes, runs, now, started, owner,
                   projects, competitors, reports, del, rep, lst, apiKey, extracted, dels>>

\* the server runs POST /scrape of call k to its 201 answer: it stores the
\* capture of the document fetched and, when the text rule says so, a TEXT
\* change against the latest capture of the page
ScrapeServed(k, html) ==
    /\ panel.calls[k].pc = "post"
    /\ \E previous \in FindFirstSnapshot(panel.calls[k].pageId),
          new \in {StoredSnapshot(Len(snapshots) + 1, panel.calls[k].pageId, html, now + 1)} :
          LET changed == TextChangeDetected(previous, new.extractedText)
          IN  /\ snapshots' = Append(snapshots, new)
              /\ changes' = IF changed
                            THEN Append(changes,
                                        StoredTextChange(Len(changes) + 1, previous, new, now + 1))
                            ELSE changes
              /\ owner' = [snap |-> Append(owner.snap, 0),
                           chg |-> IF changed THEN Append(owner.chg, 0) ELSE owner.chg]
              /\ panel' = [panel EXCEPT
                      !.calls[k] = [@ EXCEPT !.pc = "posted", !.ok = TRUE,
                                             !.created = IF changed THEN Some(Len(changes) + 1)
                                                         ELSE Null]]
    /\ now' = now + 1
    /\ UNCHANGED <<pages, runs, started, projects, competitors, reports,
                   del, rep, lst, apiKey, extracted, dels>>

\* the server answers POST /scrape of call k with an error (the fetch of the
\* page failed, storage failed): nothing is stored
ScrapeRejected(k) ==
    /\ panel.calls[k].pc = "post"
    /\ panel' = [panel EXCEPT !.calls[k] = [@ EXCEPT !.pc = "posted", !.ok = FALSE]]
    /\ UNCHANGED <<pages, snapshots, changes, runs, now, started, owner,
                   projects, competitors, reports, del, rep, lst, apiKey, extracted, dels>>

\* the panel after handleRunSnapshot's finally block
AfterFinally(pn, k) ==
    [pn EXCEPT !.scrapingPageId = Null, !.calls[k] = [@ EXCEPT !.pc = "done"]]

\* the panel when loadChangesForPage sends GET /changes for call k
AfterLoadSent(pn, k) ==
    [pn EXCEPT !.changesByPage[pn.calls[k].pageId] = LoadingState(pn.calls[k].current),
               !.calls[k] = [@ EXCEPT !.pc = "get"]]

\* the answer of POST /scrape reaches handleRunSnapshot: on an error the
\* catch and finally blocks run; on success the history is reloaded if the
\* page was the expanded one when the button was clicked
SnapshotReturns(k) ==
    /\ panel.calls[k].pc = "posted"
    /\ panel' = IF panel.calls[k].ok
                   /\ panel.calls[k].expandedPageId = Some(panel.calls[k].pageId)
                THEN AfterLoadSent(panel, k)
                ELSE AfterFinally(panel, k)
    /\ UNCHANGED <<pages, snapshots, changes, runs, now, started, owner,
                   projects, competitors, reports, del, rep, lst, apiKey, extracted, dels>>

\* the changes button of page pageId is clicked: the history is collapsed,
\* or expanded; when expanded, loadChangesForPage returns at once if changes
\* of the page are loaded already and sends GET /changes otherwise
ToggleChangesClick(pageId) ==
    /\ \/ FreeCall # 0
       \/ panel.expandedPageId = Some(pageId)
       \/ /\ panel.changesByPage[pageId] # Null
          /\ Val(panel.changesByPage[pageId]).changes # Null
    /\ panel' =
          IF panel.expandedPageId = Some(pageId)
          THEN [panel EXCEPT !.expandedPageId = Null]
          ELSE IF /\ panel.changesByPage[pageId] # Null
                  /\ Val(panel.changesByPage[pageId]).changes # Null
          THEN [panel EXCEPT !.expandedPageId = Some(pageId)]
          ELSE AfterLoadSent(
                  [panel EXCEPT
                      !.expandedPageId = Some(pageId),
                      !.calls[FreeCall] =
                          [IdleCall EXCEPT !.handler = "handleToggleChanges",
                                           !.pageId = pageId,
                                           !.expandedPageId = panel.expandedPageId,
                                           !.current = panel.changesByPage[pageId]]],
                  FreeCall)
    /\ UNCHANGED <<pages, snapshots, changes, runs, now, started, owner,
                   projects, competitors, reports, del, rep, lst, apiKey, extracted, dels>>

\* the server answers GET /changes of call k: the ids of the changes of the
\* page, latest first, at most listTake of them
ChangesServed(k) ==
    /\ panel.calls[k].pc = "get"
    /\ \E order \in OrderedByCreatedAt(
                {c \in Range(changes) : c.monitoredPageId = panel.calls[k].pageId}, TRUE) :
          panel' = [panel EXCEPT
              !.calls[k] = [@ EXCEPT !.pc = "got", !.ok = TRUE,
                                     !.body = [i \in 1..Min(Len(order), listTake) |->
                                                  order[i].id]]]
    /\ UNCHANGED <<pages, snapshots, changes, runs, now, started, owner,
                   projects, competitors, reports, del, rep, lst, apiKey, extracted, dels>>

\* the server answers GET /changes of call k with an error
ChangesRejected(k) ==
    /\ panel.calls[k].pc = "get"
    /\ panel' = [panel EXCEPT !.calls[k] = [@ EXCEPT !.pc = "got", !.ok = FALSE]]
    /\ UNCHANGED <<pages, snapshots, changes, runs, now, started, owner,
                   projects, competitors, reports, del, rep, lst, apiKey, extracted, dels>>

\* the answer of GET /changes reaches loadChangesForPage: the changes are
\* stored, or the error with the changes stored before; handleRunSnapshot
\* then runs its finally block
ChangesReturn(k) ==
    /\ panel.calls[k].pc = "got"
    /\ LET pageId == panel.calls[k].pageId
           prev == panel.changesByPage[pageId]
           loaded == [panel EXCEPT
               !.changesByPage[pageId] =
                   IF panel.calls[k].ok
                   THEN Some([loading |-> FALSE, error |-> FALSE,
                              changes |-> Some(panel.calls[k].body)])
                   ELSE Some([loading |-> FALSE, error |-> TRUE,
                              changes |-> IF prev = Null THEN Null ELSE Val(prev).changes])]
       IN  panel' = IF panel.calls[k].handler = "handleRunSnapshot"
                    THEN AfterFinally(loaded, k)
                    ELSE [loaded EXCEPT !.calls[k] = [@ EXCEPT !.pc = "done"]]
    /\ UNCHANGED <<pages, snapshots, changes, runs, now, started, owner,
                   projects, competitors, reports, del, rep, lst, apiKey, extracted, dels>>

NextPanel ==
    \/ \E pageId \in PanelPages : RunSnapshotClick(pageId)
    \/ \E pageId \in PanelPages : ToggleChangesClick(pageId)
    \/ \E k \in PanelCalls, html \in PanelDocuments : ScrapeServed(k, html)
    \/ \E k \in PanelCalls : ScrapeRejected(k)
    \/ \E k \in PanelCalls : SnapshotReturns(k)
    \/ \E k \in PanelCalls : ChangesServed(k)
    \/ \E k \in PanelCalls : ChangesRejected(k)
    \/ \E k \in PanelCalls : ChangesReturn(k)

SpecPanel == InitPanel /\ [][NextPanel]_vars

(***************************************************************************)
(* Vocabulary of the properties.                                           *)
(***************************************************************************)
\* the snapshots / changes request req inserted
SnapshotsOf(req) == {snapshots[i] : i \in {j \in DOMAIN snapshots : owner.snap[j] = req}}
ChangesOf(req) == {changes[i] : i \in {j \in DOMAIN changes : owner.chg[j] = req}}

ChangesOfType(req, type) == {c \in ChangesOf(req) : c.changeType = type}

\* request slot p has answered 201
Succeeded(p) == runs[p].pc = "done" /\ runs[p].status = 201

\* request slot p has answered 201 after comparing with a prior capture
Compared(p) == Succeeded(p) /\ runs[p].previousSnapshot # Null

\* the normalized texts a compared run had before it: prior and new
OldTextOf(p) == Coalesce(Val(runs[p].previousSnapshot).extractedText, <<>>)
NewTextOf(p) == Coalesce(Val(runs[p].newSnapshot).extractedText, <<>>)

\* the snapshots of a page
SnapshotsOfPage(pageId) == {sn \in Range(snapshots) : sn.monitoredPageId = pageId}

(***************************************************************************)
(* C1: a run that compared its capture with a prior one has persisted      *)
(* exactly one TEXT change if the two texts differ and (their lengths      *)
(* differ by more than 20 or the new text is empty), and none otherwise.   *)
(***************************************************************************)
C1_TextChangeRule ==
    \A p \in Slots :
        Compared(p) =>
            Cardinality(ChangesOfType(runs[p].req, "TEXT")) =
                IF /\ OldTextOf(p) # NewTextOf(p)
                   /\ \/ Abs(Len(NewTextOf(p)) - Len(OldTextOf(p))) > 20
                      \/ Len(NewTextOf(p)) = 0
                THEN 1 ELSE 0

\* two runs against the same prior text: one 20 characters longer (nothing
\* emitted), one 21 characters longer (a TEXT change emitted)
C1_Witness ==
    \E p, q \in Slots :
        /\ Compared(p) /\ Compared(q)
        /\ OldTextOf(p) # <<>> /\ OldTextOf(p) # NewTextOf(p)
        /\ Len(NewTextOf(p)) - Len(OldTextOf(p)) = 20
        /\ ChangesOfType(runs[p].req, "TEXT") = {}
        /\ OldTextOf(q) # <<>>
        /\ Len(NewTextOf(q)) - Len(OldTextOf(q)) = 21
        /\ Cardinality(ChangesOfType(runs[q].req, "TEXT")) = 1

(***************************************************************************)
(* C2 as stated: on every run, with the prior pricing taken as null when   *)
(* there is no prior capture, a PRICE change is persisted iff the two      *)
(* serialized pricing lists differ and one of them is not null.            *)
(***************************************************************************)
PriorPricingOf(p) ==
    IF runs[p].previousSnapshot = Null THEN Null
    ELSE Val(runs[p].previousSnapshot).extractedPricing

NewPricingOf(p) == Val(runs[p].newSnapshot).extractedPricing

PricingDiffers(p) ==
    /\ JsonStringify(PriorPricingOf(p)) # JsonStringify(NewPricingOf(p))
    /\ (PriorPricingOf(p) # Null \/ NewPricingOf(p) # Null)

C2_AsStated ==
    \A p \in Slots :
        Succeeded(p) =>
            (Cardinality(ChangesOfType(runs[p].req, "PRICE")) = 1 <=> PricingDiffers(p))

(***************************************************************************)
(* C2 amended: a run that has a prior capture persists exactly one PRICE   *)
(* change if the serialized pricing lists of the prior and the new capture *)
(* differ (order-sensitive) and one is not null, whatever the text         *)
(* comparison did, and none otherwise; a run without a prior capture       *)
(* persists no PRICE change.                                               *)
(***************************************************************************)
C2_PriceChangeRule ==
    \A p \in Slots :
        Succeeded(p) =>
            Cardinality(ChangesOfType(runs[p].req, "PRICE")) =
                IF Compared(p) /\ PricingDiffers(p) THEN 1 ELSE 0

\* the items of a as a set with their multiplicity lost
Items(pricing) == IF pricing = Null THEN {} ELSE Range(Val(pricing))

\* a run whose new pricing list holds the items of the prior one in another
\* order: a PRICE change and no TEXT change
C2_Witness ==
    \E p \in Slots :
        /\ Compared(p)
        /\ PriorPricingOf(p) # NewPricingOf(p)
        /\ Items(PriorPricingOf(p)) = Items(NewPricingOf(p))
        /\ Cardinality(Items(NewPricingOf(p))) = 2
        /\ Cardinality(ChangesOfType(runs[p].req, "PRICE")) = 1
        /\ ChangesOfType(runs[p].req, "TEXT") = {}

(***************************************************************************)
(* C3 as stated: every persisted change whose new capture is n has as its  *)
(* old capture the capture of the same page with the greatest timestamp    *)
(* strictly less than n's.                                                 *)
(***************************************************************************)
C3_AsStated ==
    \A c \in Range(changes) :
        LET n == snapshots[c.newSnapshotId]
            o == snapshots[c.oldSnapshotId]
            before == {sn \in SnapshotsOfPage(n.monitoredPageId) :
                          sn.capturedAt < n.capturedAt}
        IN  /\ o \in before
            /\ \A sn \in before : sn.capturedAt <= o.capturedAt

(***************************************************************************)
(* C4: a run that answers 201 has persisted exactly one capture, of its    *)
(* page and of what it fetched, no run ever persists two, and a run whose  *)
(* text is the prior capture's text has persisted its capture and no       *)
(* change.                                                                 *)
(***************************************************************************)
C4_OneCapturePerRun ==
    /\ \A req \in 1..started : Cardinality(SnapshotsOf(req)) <= 1
    /\ \A p \in Slots :
          Succeeded(p) =>
            /\ SnapshotsOf(runs[p].req) = {Val(runs[p].newSnapshot)}
            /\ Val(runs[p].newSnapshot).monitoredPageId = runs[p].monitoredPageId
            /\ (Compared(p) /\ OldTextOf(p) = NewTextOf(p) => ChangesOf(runs[p].req) = {})

\* two successive runs on a page without captures, same content: two
\* captures of the page and no change
C4_Witness ==
    \E p \in Slots :
        /\ Compared(p)
        /\ OldTextOf(p) = NewTextOf(p)
        /\ Cardinality(SnapshotsOfPage(runs[p].monitoredPageId)) = 2
        /\ changes = <<>>
        /\ started = 2

(***************************************************************************)
(* C5: a run whose fetch failed has answered 500, not the 201 of a run     *)
(* that detected no change, and has inserted no capture and no change.     *)
(***************************************************************************)
C5_FetchFailure ==
    \A p \in Slots :
        runs[p].pc = "done" /\ runs[p].thrown \in FetchErrors =>
            /\ runs[p].status = 500
            /\ SnapshotsOf(runs[p].req) = {}
            /\ ChangesOf(runs[p].req) = {}

\* a fetch failed after another run had stored a capture
C5_Witness ==
    \E p \in Slots :
        /\ runs[p].pc = "done" /\ runs[p].thrown \in FetchErrors
        /\ runs[p].req = 2
        /\ Len(snapshots) = 2

(***************************************************************************)
(* C6 as stated: whenever a run has reported an error, no capture and no   *)
(* change it created remains in storage.                                   *)
(***************************************************************************)
C6_AsStated ==
    \A p \in Slots :
        runs[p].pc = "done" /\ runs[p].status = 500 =>
            /\ SnapshotsOf(runs[p].req) = {}
            /\ ChangesOf(runs[p].req) = {}

(***************************************************************************)
(* C7: runs on one page do not exclude each other.  While a run is in      *)
(* flight on a page a further request for that page is accepted and may    *)
(* load its prior capture; and when two runs hold the same prior capture   *)
(* and have each stored a capture of their own, every change of either     *)
(* compares that one prior capture with the run's own new capture.         *)
(***************************************************************************)
InFlight(p) == runs[p].pc \notin {"idle", "done"}

C7_NotMutuallyExclusive ==
    /\ \A p \in Slots :
          InFlight(p) /\ FreeSlot # 0 /\ started < MaxRuns =>
              \E raw \in RawPageIds :
                  /\ parsePageId(raw) = Some(runs[p].monitoredPageId)
                  /\ ENABLED Receive(FreeSlot, raw)
    /\ \A p \in Slots : runs[p].pc = "findPrevious" => ENABLED LoadPrevious(p)
    /\ \A p, q \in Slots :
          /\ p # q
          /\ runs[p].previousSnapshot # Null
          /\ runs[p].previousSnapshot = runs[q].previousSnapshot
          /\ runs[p].newSnapshot # Null /\ runs[q].newSnapshot # Null
          => /\ runs[p].newSnapshot # runs[q].newSnapshot
             /\ \A c \in ChangesOf(runs[p].req) :
                   /\ c.oldSnapshotId = Val(runs[q].previousSnapshot).id
                   /\ c.newSnapshotId = Val(runs[p].newSnapshot).id

\* two runs that loaded the same prior capture have each persisted a change
\* from it to a capture of their own
C7_Witness ==
    \E p, q \in Slots :
        /\ p # q /\ Compared(p) /\ Compared(q)
        /\ runs[p].previousSnapshot = runs[q].previousSnapshot
        /\ \E c \in ChangesOf(runs[p].req), d \in ChangesOf(runs[q].req) :
              /\ c.oldSnapshotId = d.oldSnapshotId
              /\ c.newSnapshotId # d.newSnapshotId

(***************************************************************************)
(* C8: runs on different pages are independent.  What a run holds (its     *)
(* prior capture, its new capture, its change) belongs to its own page,    *)
(* and a step of a run leaves the captures and changes of every other page *)
(* as they are.                                                            *)
(***************************************************************************)
\* the page ids a request can name
NamedPageIds == {Val(parsePageId(raw)) : raw \in {r \in RawPageIds : parsePageId(r) # Null}}

\* the captures and the changes of a page, in insertion order
RowsOfPage(pageId) ==
    <<SelectSeq(snapshots, LAMBDA sn : sn.monitoredPageId = pageId),
      SelectSeq(changes, LAMBDA c : c.monitoredPageId = pageId)>>

HoldsOwnPageOnly(p) ==
    /\ \A held \in {runs[p].previousSnapshot, runs[p].newSnapshot, runs[p].change} :
          held # Null => Val(held).monitoredPageId = runs[p].monitoredPageId
    /\ \A c \in ChangesOf(runs[p].req) :
          /\ c.monitoredPageId = snapshots[c.oldSnapshotId].monitoredPageId
          /\ c.monitoredPageId = snapshots[c.newSnapshotId].monitoredPageId

\* the page the request in slot p is for, across a step
ActingPage(p) ==
    IF InFlight(p) THEN runs[p].monitoredPageId ELSE runs'[p].monitoredPageId

C8_PagesIndependent ==
    /\ [](\A p \in Slots : HoldsOwnPageOnly(p))
    /\ [][\A p \in Slots :
            runs'[p] # runs[p] =>
                \A pageId \in NamedPageIds \ {ActingPage(p)} :
                    RowsOfPage(pageId)' = RowsOfPage(pageId)]_vars

\* a run on page 1 and a run on page 2, in flight together, have both
\* stored a capture and a change
C8_Witness ==
    \E p, q \in Slots :
        /\ Succeeded(p) /\ Succeeded(q)
        /\ runs[p].monitoredPageId = 1 /\ runs[q].monitoredPageId = 2
        /\ ChangesOf(runs[p].req) # {}
        /\ SnapshotsOf(runs[q].req) # {}

(***************************************************************************)
(* C9: a run persists at most one TEXT change (field content) and at most  *)
(* one PRICE change (field pricing), nothing of another kind, and each of  *)
(* them has the capture the run created as its new capture.                *)
(***************************************************************************)
C9_ChangesOfARun ==
    \A req \in 1..started :
        /\ Cardinality(ChangesOfType(req, "TEXT")) <= 1
        /\ Cardinality(ChangesOfType(req, "PRICE")) <= 1
        /\ \A c \in ChangesOf(req) :
              /\ c.changeType \in {"TEXT", "PRICE"}
              /\ c.changeType = "TEXT" => c.field = "content"
              /\ c.changeType = "PRICE" => c.field = "pricing"
              /\ \E sn \in SnapshotsOf(req) : sn.id = c.newSnapshotId

\* a run that persisted two changes
C9_Witness ==
    \E req \in 1..started :
        /\ Cardinality(ChangesOf(req)) = 2
        /\ ChangesOfType(req, "TEXT") # {}
        /\ ChangesOfType(req, "PRICE") # {}

(***************************************************************************)
(* C10: in a 201 answer hasChange is true iff the run persisted a change,  *)
(* and the change returned is the TEXT change if one was persisted, else   *)
(* the PRICE change if one was persisted, else none.                       *)
(***************************************************************************)
C10_ReturnedChange ==
    \A p \in Slots :
        Succeeded(p) =>
            /\ runs[p].hasChange <=> ChangesOf(runs[p].req) # {}
            /\ IF ChangesOfType(runs[p].req, "TEXT") # {}
               THEN /\ runs[p].change # Null
                    /\ Val(runs[p].change) \in ChangesOfType(runs[p].req, "TEXT")
               ELSE IF ChangesOfType(runs[p].req, "PRICE") # {}
               THEN /\ runs[p].change # Null
                    /\ Val(runs[p].change) \in ChangesOfType(runs[p].req, "PRICE")
               ELSE runs[p].change = Null

\* a 201 answer of a run that persisted a TEXT and a PRICE change and
\* returned the TEXT change
C10_Witness ==
    \E p \in Slots :
        /\ Succeeded(p)
        /\ ChangesOfType(runs[p].req, "TEXT") # {}
        /\ ChangesOfType(runs[p].req, "PRICE") # {}
        /\ Val(runs[p].change).changeType = "TEXT"
        /\ runs[p].hasChange

(***************************************************************************)
(* Vocabulary of the properties about stored rows.                         *)
(***************************************************************************)
\* the stored snapshots with a given id (none or one)
SnapshotsById(id) == {sn \in Range(snapshots) : sn.id = id}

\* the pages that own the stored snapshots with a given id
PagesOfSnapshot(id) == {sn.monitoredPageId : sn \in SnapshotsById(id)}

(***************************************************************************)
(* C11: for every persisted change, the old capture and the new capture it *)
(* references are stored, and each belongs to the page the change          *)
(* references.                                                             *)
(***************************************************************************)
C11_ChangePageConsistent ==
    \A c \in Range(changes) :
        /\ PagesOfSnapshot(c.oldSnapshotId) = {c.monitoredPageId}
        /\ PagesOfSnapshot(c.newSnapshotId) = {c.monitoredPageId}

\* a change whose old capture was itself stored by a run, and whose id is
\* the id of another stored page
C11_Witness ==
    \E c \in Range(changes) :
        /\ c.oldSnapshotId # c.monitoredPageId
        /\ FindPageById(c.oldSnapshotId) # {}
        /\ owner.snap[c.oldSnapshotId] > 0

(***************************************************************************)
(* C12: no stored capture and no stored change references a page that is   *)
(* not stored, and once a DELETE has answered 200 the page it named is     *)
(* gone, so that no capture or change of it is left, whatever capture runs *)
(* on the page were in flight.                                             *)
(***************************************************************************)
C12_DeleteCascades ==
    /\ \A sn \in Range(snapshots) : FindPageById(sn.monitoredPageId) # {}
    /\ \A c \in Range(changes) : FindPageById(c.monitoredPageId) # {}
    /\ (del.pc = "done" /\ del.status = 200) =>
          /\ FindPageById(del.monitoredPageId) = {}
          /\ \A sn \in Range(snapshots) : sn.monitoredPageId # del.monitoredPageId
          /\ \A c \in Range(changes) : c.monitoredPageId # del.monitoredPageId

\* the DELETE of a page has answered 200 while a capture run on the page,
\* which stored its capture before, is about to insert a change
C12_Witness ==
    /\ del.pc = "done" /\ del.status = 200
    /\ \E p \in Slots :
          /\ runs[p].pc \in {"createTextChange", "createPriceChange"}
          /\ runs[p].monitoredPageId = del.monitoredPageId
          /\ runs[p].newSnapshot # Null

(***************************************************************************)
(* C14: the old value and the new value of every persisted change are at   *)
(* most 2000 characters long, and each is a prefix of the text (TEXT) or   *)
(* of the serialized pricing list (PRICE) of the capture it was taken      *)
(* from.                                                                   *)
(***************************************************************************)
IsPrefix(s, t) == Len(s) <= Len(t) /\ s = SubSeq(t, 1, Len(s))

\* what a change of the kind of c compares in capture sn
ComparedValue(c, sn) ==
    IF c.changeType = "TEXT" THEN Coalesce(sn.extractedText, <<>>)
    ELSE JsonStringify(sn.extractedPricing)

C14_StoredValuesTruncated ==
    \A c \in Range(changes) :
        /\ Len(c.oldValue) <= 2000
        /\ Len(c.newValue) <= 2000
        /\ SnapshotsById(c.oldSnapshotId) # {}
        /\ SnapshotsById(c.newSnapshotId) # {}
        /\ \A sn \in SnapshotsById(c.oldSnapshotId) : IsPrefix(c.oldValue, ComparedValue(c, sn))
        /\ \A sn \in SnapshotsById(c.newSnapshotId) : IsPrefix(c.newValue, ComparedValue(c, sn))

\* a TEXT change whose old text and a PRICE change whose new pricing list
\* are longer than 2000 characters, each stored as its first 2000 characters
C14_Witness ==
    /\ \E c \in Range(changes), sn \in Range(snapshots) :
          /\ c.changeType = "TEXT" /\ sn.id = c.oldSnapshotId
          /\ Len(ComparedValue(c, sn)) > 2000
          /\ Len(c.oldValue) = 2000
    /\ \E c \in Range(changes), sn \in Range(snapshots) :
          /\ c.changeType = "PRICE" /\ sn.id = c.newSnapshotId
          /\ Len(ComparedValue(c, sn)) > 2000
          /\ Len(c.newValue) = 2000

(***************************************************************************)
(* Reports                                                                 *)
(***************************************************************************)
\* the request has been answered 201 with the row it created
ReportCreated == rep.pc = "done" /\ rep.status = 201 /\ rep.created # Null

\* the window of the request holds no change of its project
WindowEmpty ==
    /\ rep.periodStart # Null
    /\ ChangesInPeriod(rep.projectId, Val(rep.periodStart), Val(rep.periodEnd)) = {}

\* C15 as stated: a report created for a window without changes has the
\* fixed summary and empty highlights and no call of OpenAI was made,
\* whether the key is set or not.
C15_NoChangesAlwaysStatic ==
    (ReportCreated /\ WindowEmpty) =>
        /\ ~rep.called
        /\ Val(rep.created).aiSummary = Some(NoChangesSummary)
        /\ Val(rep.created).highlights = Some(<<>>)

\* C15 amended: a report created for a window without changes is made
\* without a call of OpenAI; it is the last row of the Report table; its
\* summary is the fixed statement and its highlights are the empty list
\* when the key is set and the request asks for AI, and both are null
\* otherwise.
C15_NoChangesStaticWithKey ==
    (ReportCreated /\ WindowEmpty) =>
        /\ ~rep.called
        /\ reports[Len(reports)] = Val(rep.created)
        /\ IF apiKey /\ rep.useAi
           THEN /\ Val(rep.created).aiSummary = Some(NoChangesSummary)
                /\ Val(rep.created).highlights = Some(<<>>)
           ELSE /\ Val(rep.created).aiSummary = Null
                /\ Val(rep.created).highlights = Null

C15_Witness ==
    /\ ReportCreated /\ WindowEmpty
    /\ apiKey /\ rep.useAi
    /\ Val(rep.created).aiSummary = Some(NoChangesSummary)

\* the request found changes and the key is not set
NoKeyWithChanges == ~apiKey /\ Len(rep.changes) > 0

\* the request goes on to create the report without a call of OpenAI, and
\* nothing but storage makes it fail
SucceedsWithoutCall ==
    /\ rep.pc \in {"createReport", "done"}
    /\ ~rep.called
    /\ rep.pc = "done" => (ReportCreated \/ (rep.status = 500 /\ rep.thrown = "storage"))

\* C16 as stated: without the key and with at least one change, the report
\* is created without a call of OpenAI, with a null summary and the empty
\* list as highlights.
C16_NoKeyEmptyHighlights ==
    NoKeyWithChanges =>
        /\ SucceedsWithoutCall
        /\ ReportCreated =>
              /\ Val(rep.created).aiSummary = Null
              /\ Val(rep.created).highlights = Some(<<>>)

\* C16 amended: without the key and with at least one change, the report
\* is created without a call of OpenAI, with a null summary and null
\* highlights (the column is left out of the insert).
C16_NoKeyNullHighlights ==
    NoKeyWithChanges =>
        /\ SucceedsWithoutCall
        /\ ReportCreated =>
              /\ reports[Len(reports)] = Val(rep.created)
              /\ Val(rep.created).aiSummary = Null
              /\ Val(rep.created).highlights = Null

C16_Witness ==
    /\ NoKeyWithChanges /\ rep.useAi
    /\ ReportCreated
    /\ Val(rep.created).highlights = Null

\* the ways the call of OpenAI fails: it throws (a timeout is thrown by the
\* client), gives no content, or gives content that is no JSON object
FailedOutcomes == {"throws", "empty", "unparseable", "parsed null"}

\* C17: when the call of OpenAI throws, times out, returns no content or
\* returns unparseable content, the request goes on to prisma.report.create
\* with a null summary and null highlights, as without the key; the create
\* then inserts exactly one row and answers 201 with it, and only a
\* rejection by storage answers 500.
C17_SynthesisFailureStillCreates ==
    [][/\ (rep.pc = "openai" /\ rep'.outcome \in FailedOutcomes) =>
              /\ rep'.pc = "createReport"
              /\ rep'.aiSummary = Null
              /\ rep'.highlights = Null
       /\ (rep.pc = "createReport" /\ rep.outcome \in FailedOutcomes /\ rep'.pc # rep.pc) =>
              \/ /\ rep'.pc = "done" /\ rep'.status = 201
                 /\ Len(reports') = Len(reports) + 1
                 /\ reports'[Len(reports')] = Val(rep'.created)
                 /\ Val(rep'.created).aiSummary = Null
                 /\ Val(rep'.created).highlights = Null
              \/ /\ rep'.pc = "done" /\ rep'.status = 500 /\ rep'.thrown = "storage"
                 /\ reports' = reports]_vars

C17_Witness ==
    /\ ReportCreated
    /\ rep.outcome \in FailedOutcomes
    /\ rep.called
    /\ reports[Len(reports)] = Val(rep.created)
    /\ Val(rep.created).aiSummary = Null

\* the length of the default period on the clock
SevenDays == defaultPeriodDays * DayTicks

\* the dates a body gives, Null for a bound it leaves out
GivenStart(b) == IF Truthy(b.periodStart) THEN ParseDate(Val(b.periodStart)) ELSE Null
GivenEnd(b) == IF Truthy(b.periodEnd) THEN ParseDate(Val(b.periodEnd)) ELSE Null

\* the window [start, end] is the one C18 states for body b, the clock
\* reading read1 or read2 while the request is served
StatedWindow(b, read1, read2, start, end) ==
    IF GivenStart(b) # Null /\ GivenEnd(b) = Null
    THEN start = Val(GivenStart(b)) /\ end = Val(GivenStart(b)) + SevenDays
    ELSE IF GivenStart(b) = Null /\ GivenEnd(b) # Null
    THEN start = Val(GivenEnd(b)) - SevenDays /\ end = Val(GivenEnd(b))
    ELSE IF GivenStart(b) = Null /\ GivenEnd(b) = Null
    THEN end \in {read1, read2} /\ start \in {read1 - SevenDays, read2 - SevenDays}
    ELSE IF Val(GivenStart(b)) > Val(GivenEnd(b))
    THEN start = Val(GivenEnd(b)) /\ end = Val(GivenStart(b))
    ELSE start = Val(GivenStart(b)) /\ end = Val(GivenEnd(b))

\* C18 as stated: a request with only periodStart resolves to [periodStart,
\* periodStart + 7 days], with only periodEnd to [periodEnd - 7 days,
\* periodEnd], with neither to [now - 7 days, now], and with both in the
\* wrong order to the swapped bounds.
C18_WindowAsStated ==
    [][rep'.req # rep.req =>
         \A raw \in RawProjectIds, body \in Bodies \ {Null} :
            \A read1 \in ClockAfter(now) : \A read2 \in ClockAfter(read1) :
               ReportReceive(raw, body, read1, read2) =>
                   StatedWindow(Val(body), read1, read2,
                                Val(rep'.periodStart), Val(rep'.periodEnd))]_vars

\* every row of the Report table has both bounds, in order
ReportsHaveWindow ==
    \A i \in DOMAIN reports :
        /\ reports[i].periodStart # Null
        /\ reports[i].periodEnd # Null
        /\ Val(reports[i].periodStart) <= Val(reports[i].periodEnd)

\* a date field holds a string that is no date
Unparseable(field) == field # Null /\ Val(field) # "" /\ ParseDate(Val(field)) = Null

\* the bodies with a bound that is no date
UnparseableBodies ==
    {body \in Bodies \ {Null} :
        Unparseable(Val(body).periodStart) \/ Unparseable(Val(body).periodEnd)}

\* C19: every persisted report has both period bounds, with periodStart <=
\* periodEnd, whatever bounds the request gave, missing or reversed; a request
\* with an unparseable bound can never go on to the database: the only step
\* it can take is the answer 400, which persists no report.
C19_PersistedWindowConcrete ==
    /\ ReportsHaveWindow
    /\ \A raw \in RawProjectIds, body \in UnparseableBodies :
          /\ \A read1 \in ClockAfter(now) : \A read2 \in ClockAfter(read1) :
                ~ENABLED ReportReceive(raw, body, read1, read2)
          /\ (rep.pc \in {"idle", "done"} /\ rep.req < MaxReports) =>
                ENABLED ReportInvalid(raw, body)
    /\ rep.status = 400 => rep.pc = "done" /\ rep.created = Null

C19_Witness ==
    /\ ReportCreated
    /\ reports[Len(reports)] = Val(rep.created)
    /\ Val(rep.created).periodStart = Some(DateA)
    /\ Val(rep.created).periodEnd = Some(DateB)

\* the project the page of change c belongs to, through its competitor
ProjectsOfChange(c) ==
    {cp.projectId : cp \in {x \in competitors :
        \E pg \in pages : pg.id = c.monitoredPageId /\ pg.competitorId = x.id}}

\* the request has read the changes its report is made from
ChangesRead == rep.pc \in {"openai", "createReport"} \/ ReportCreated

\* C20: the changes a report is made from are exactly the stored changes
\* whose page belongs to a competitor of the requested project and whose
\* createdAt t has periodStart <= t <= periodEnd, each once, in ascending
\* order of createdAt.
C20_ReportChangesExact ==
    ChangesRead =>
        /\ Range(rep.changes) =
              {c \in Range(changes) :
                  /\ rep.projectId \in ProjectsOfChange(c)
                  /\ Val(rep.periodStart) <= c.createdAt
                  /\ c.createdAt <= Val(rep.periodEnd)}
        /\ \A i, j \in DOMAIN rep.changes :
              i < j => /\ rep.changes[i] # rep.changes[j]
                       /\ rep.changes[i].createdAt <= rep.changes[j].createdAt

C20_Witness ==
    /\ ReportCreated
    /\ rep.projectId = 1
    /\ Len(rep.changes) = 3
    /\ rep.changes[1].createdAt = Val(rep.periodStart)
    /\ rep.changes[3].createdAt = Val(rep.periodEnd)
    /\ \E c \in Range(changes) :
          c.createdAt = Val(rep.periodStart) /\ ProjectsOfChange(c) = {2}
    /\ \E c \in Range(changes) : c.createdAt = Val(rep.periodStart) - 1
    /\ \E c \in Range(changes) : c.createdAt = Val(rep.periodEnd) + 1

(***************************************************************************)
(* Frame                                                                   *)
(***************************************************************************)
\* every row of old that is still in new, by id, has all its fields as before
Unmutated(old, new) ==
    \A r \in Range(old), r2 \in Range(new) : r.id = r2.id => r = r2

\* C13: no step changes a field of a stored capture or change; a step of a
\* capture run, of a report request or of a listing request keeps every
\* stored capture and change, and the latter two add none; the set of
\* captures or changes is altered only by a capture run, which only adds
\* rows, and by the commit of a page deletion, which only removes rows of
\* the deleted page.
C13_CapturesAndChangesImmutable ==
    [][/\ Unmutated(snapshots, snapshots')
       /\ Unmutated(changes, changes')
       /\ (runs' # runs \/ rep' # rep \/ lst' # lst) =>
              /\ Range(snapshots) \subseteq Range(snapshots')
              /\ Range(changes) \subseteq Range(changes')
       /\ (rep' # rep \/ lst' # lst) =>
              /\ snapshots' = snapshots
              /\ changes' = changes
       /\ (Range(snapshots') # Range(snapshots) \/ Range(changes') # Range(changes)) =>
              \/ /\ runs' # runs
                 /\ Range(snapshots) \subseteq Range(snapshots')
                 /\ Range(changes) \subseteq Range(changes')
              \/ /\ del.pc = "transaction" /\ del'.pc = "done" /\ del'.status = 200
                 /\ Range(snapshots') \subseteq Range(snapshots)
                 /\ Range(changes') \subseteq Range(changes)
                 /\ \A r \in (Range(snapshots) \ Range(snapshots'))
                           \cup (Range(changes) \ Range(changes')) :
                        r.monitoredPageId = del.monitoredPageId]_vars

\* a capture run stored a change, a report was made from it, and the
\* deletion of its page then removed it with its captures
C13_Witness ==
    /\ ReportCreated
    /\ Len(rep.changes) > 0
    /\ del.pc = "done" /\ del.status = 200
    /\ Len(owner.chg) > 0
    /\ changes = <<>>
    /\ \A sn \in Range(snapshots) : sn.monitoredPageId # del.monitoredPageId

(***************************************************************************)
(* Prompt                                                                  *)
(***************************************************************************)
\* the request has sent its prompt to OpenAI
PromptSent == rep.prompt # Null /\ ~Val(rep.prompt).none

\* C21: the prompt built from n > 0 changes has min(n, 200) lines; line i is
\* the line of the i-th change of the time-ascending list; the changes past
\* the 200th have no line and are still stored.
C21_PromptCappedInOrder ==
    PromptSent =>
        LET lines == Val(rep.prompt).lines
            n == Len(rep.changes)
        IN  /\ \A i, j \in DOMAIN rep.changes :
                  i < j => rep.changes[i].createdAt < rep.changes[j].createdAt
            /\ Len(lines) = IF n < 200 THEN n ELSE 200
            /\ \A i \in DOMAIN lines :
                  /\ lines[i].date = rep.changes[i].createdAt
                  /\ lines[i].changeType = rep.changes[i].changeType
                  /\ lines[i].summary = rep.changes[i].changeSummary
            /\ \A i \in DOMAIN rep.changes : rep.changes[i] \in Range(changes)

C21_Witness ==
    /\ PromptSent
    /\ Len(rep.changes) > 200
    /\ Len(Val(rep.prompt).lines) = 200
    /\ Val(rep.prompt).lines[200].date = rep.changes[200].createdAt
    /\ rep.changes[201] \in Range(changes)

\* the two previews of line i, and the values they are made from
Previews(i) == Val(Val(rep.prompt).lines[i].pricing)
PreviewedValues(i) == <<rep.changes[i].oldValue, rep.changes[i].newValue>>

\* C22 as stated: only the lines of PRICE changes carry previews, and each
\* preview is the stored value cut to at most 400 characters.
C22_PreviewsAtMost400 ==
    PromptSent =>
        \A i \in DOMAIN Val(rep.prompt).lines :
            /\ Val(rep.prompt).lines[i].pricing # Null <=> rep.changes[i].changeType = "PRICE"
            /\ rep.changes[i].changeType = "PRICE" =>
                  \A side \in 1..2 :
                      /\ Len(Previews(i)[side]) <= 400
                      /\ Previews(i)[side] = SubSeq(PreviewedValues(i)[side], 1,
                              IF Len(PreviewedValues(i)[side]) < 400
                              THEN Len(PreviewedValues(i)[side]) ELSE 400)

\* C22 amended: only the lines of PRICE changes carry previews; a stored
\* value of at most 400 characters is its own preview, and a longer one is
\* previewed by its first 400 characters followed by an ellipsis, 401
\* characters in all.
C22_PreviewsCutWithEllipsis ==
    PromptSent =>
        \A i \in DOMAIN Val(rep.prompt).lines :
            /\ Val(rep.prompt).lines[i].pricing # Null <=> rep.changes[i].changeType = "PRICE"
            /\ rep.changes[i].changeType = "PRICE" =>
                  \A side \in 1..2 :
                      IF Len(PreviewedValues(i)[side]) <= 400
                      THEN Previews(i)[side] = PreviewedValues(i)[side]
                      ELSE /\ Len(Previews(i)[side]) = 401
                           /\ SubSeq(Previews(i)[side], 1, 400) =
                                 SubSeq(PreviewedValues(i)[side], 1, 400)
                           /\ Previews(i)[side][401] = Ellipsis

C22_Witness ==
    /\ PromptSent
    /\ \E i \in DOMAIN Val(rep.prompt).lines :
          /\ rep.changes[i].changeType = "PRICE"
          /\ Len(rep.changes[i].oldValue) = 401
          /\ Len(Previews(i)[1]) = 401
    /\ \E i \in DOMAIN Val(rep.prompt).lines :
          /\ rep.changes[i].changeType = "PRICE"
          /\ Len(rep.changes[i].newValue) = 400
          /\ Previews(i)[2] = rep.changes[i].newValue
    /\ \E i \in DOMAIN Val(rep.prompt).lines :
          /\ rep.changes[i].changeType = "TEXT"
          /\ Len(rep.changes[i].oldValue) >= 400
          /\ Val(rep.prompt).lines[i].pricing = Null
(***************************************************************************)
(* Vocabulary of the properties about the pricing passes.                  *)
(***************************************************************************)
\* the lines of a text that carry a price, in line order
MatchingLines(text) ==
    IF text = <<>> THEN <<>> ELSE SelectSeq(Lines(text), LAMBDA line : Match(line) # Null)

\* the items of the first MAX_ITEMS matching lines
FirstMatchingItems(text) ==
    [i \in 1..Min(Len(MatchingLines(text)), MAX_ITEMS) |-> ItemOf(MatchingLines(text)[i])]

\* the price string the structured pass reads in a block: data-price first
RawPriceOf(article) ==
    IF article.priceData # Null THEN article.priceData ELSE article.priceText

HasDigit(s) == \E i \in 1..Len(s) : s[i] \in Digits

\* block k of the markup has an item in pricingData
Recorded(k) ==
    \E i \in 1..Len(Val(extracted.pricingData)) : Val(extracted.pricingData)[i].sku = k

\* C23: both passes return at most 50 items, and the loose pass returns the
\* items of the first 50 matching lines in line order.
C23_BothPassesAtMost50 ==
    extracted.pc = "done" =>
        /\ Len(Val(extracted.pricingData)) <= MAX_ITEMS
        /\ Len(Val(extracted.looseItems)) <= MAX_ITEMS
        /\ Val(extracted.looseItems) = FirstMatchingItems(extracted.extractedText)

\* the part of C23 about the loose pass alone
LoosePassBounded ==
    extracted.pc = "done" =>
        /\ Len(Val(extracted.looseItems)) <= MAX_ITEMS
        /\ Val(extracted.looseItems) = FirstMatchingItems(extracted.extractedText)

\* more than MAX_ITEMS matching lines were read and MAX_ITEMS items came out
LoosePassCut ==
    /\ extracted.pc = "done"
    /\ Len(MatchingLines(extracted.extractedText)) > MAX_ITEMS
    /\ Len(Val(extracted.looseItems)) = MAX_ITEMS

\* C25: the structured pass records an item for a block iff the block has a
\* name and a price that parses as a finite number; a block without a name,
\* without a price, or whose price text has no digit produces no item, and
\* every item recorded is whole.
C25_ItemIffNameAndParsedPrice ==
    extracted.pc # "fetched" =>
        /\ \A k \in DOMAIN extracted.articles :
              Recorded(k) <=>
                  /\ extracted.articles[k].name # Null
                  /\ RawPriceOf(extracted.articles[k]) # Null
                  /\ HasDigit(Val(RawPriceOf(extracted.articles[k])))
                  /\ parsePriceFromString(Val(RawPriceOf(extracted.articles[k]))) # Null
        /\ \A i \in 1..Len(Val(extracted.pricingData)) :
              /\ Val(extracted.pricingData)[i].sku \in DOMAIN extracted.articles
              /\ Val(extracted.pricingData)[i].currency = "EUR"

\* C25 without its clause on price texts that have no digit
ItemIffNameAndFinitePrice ==
    extracted.pc # "fetched" =>
        \A k \in DOMAIN extracted.articles :
            Recorded(k) <=>
                /\ extracted.articles[k].name # Null
                /\ RawPriceOf(extracted.articles[k]) # Null
                /\ parsePriceFromString(Val(RawPriceOf(extracted.articles[k]))) # Null

\* a block with a name and a digit-less price is recorded, with price 0
RecordedWithoutDigits ==
    /\ extracted.pc # "fetched"
    /\ \E i \in 1..Len(Val(extracted.pricingData)) :
          LET item == Val(extracted.pricingData)[i]
          IN  /\ ~HasDigit(Val(RawPriceOf(extracted.articles[item.sku])))
              /\ item.price = [whole |-> 0, frac |-> <<>>]


(***************************************************************************)
(* Vocabulary of the properties about rejected capture requests.           *)
(***************************************************************************)
\* the run of slot p is looking up a page that does not exist
NamesNoPage(p) ==
    /\ runs[p].pc = "findPage"
    /\ FindPageById(runs[p].monitoredPageId) = {}

\* a malformed page id never reaches the page lookup, and a run is past the
\* page lookup (waiting for storage or for the fetch) only for a page that
\* exists
OnlyExistingPagesPastLookup ==
    /\ \A p \in Slots, raw \in RawPageIds :
          parsePageId(raw) = Null => ~ENABLED Receive(p, raw)
    /\ \A p \in Slots :
          runs[p].pc \notin {"idle", "done", "findPage"} =>
              FindPageById(runs[p].monitoredPageId) # {}

\* slot p answers in this step a request that arrived in it (malformed id)
\* or that was waiting for the page lookup
AnswersBeforeCore(p) ==
    /\ runs'[p].pc = "done"
    /\ \/ runs[p].pc = "findPage"
       \/ runs[p].pc \in {"idle", "done"} /\ runs'[p].req # runs[p].req

\* C24 as stated: a request with a malformed page id or for a page that
\* does not exist is answered 400 or 404, without a fetch and without a
\* change to the captures and the changes.
C24_RejectedWithClientError ==
    /\ []OnlyExistingPagesPastLookup
    /\ [][\A p \in Slots :
            AnswersBeforeCore(p) =>
                /\ snapshots' = snapshots /\ changes' = changes
                /\ runs[p].pc # "findPage" => runs'[p].status = 400
                /\ NamesNoPage(p) => runs'[p].status = 404]_vars

\* C24, amended: the answer is 400 for a malformed id and 404 for a page
\* that does not exist, or 500 when the page lookup itself fails; in every
\* case nothing is fetched and the captures and the changes are unchanged.
C24_RejectedBeforeCore ==
    /\ []OnlyExistingPagesPastLookup
    /\ [][\A p \in Slots :
            AnswersBeforeCore(p) =>
                /\ snapshots' = snapshots /\ changes' = changes
                /\ runs[p].pc # "findPage" => runs'[p].status = 400
                /\ NamesNoPage(p) =>
                      \/ runs'[p].status = 404
                      \/ runs'[p].status = 500 /\ runs'[p].thrown = "storage"]_vars

\* one request was answered 400 and another 404, and nothing was stored
C24_Witness ==
    /\ \E p \in Slots : runs[p].pc = "done" /\ runs[p].status = 400
    /\ \E p \in Slots : runs[p].pc = "done" /\ runs[p].status = 404
    /\ Len(snapshots) = 1 /\ changes = <<>>


(***************************************************************************)
(* Vocabulary of the properties about deleted projects and competitors.    *)
(***************************************************************************)
\* the ids the DELETE calls of a kind answered 200 for
AnsweredDeleted(kind) ==
    {dels[k].id : k \in {k \in DeleteCalls :
                            /\ dels[k].pc = "done" /\ dels[k].status = 200
                            /\ dels[k].kind = kind}}

\* the competitors and the pages that are gone once those ids are deleted
GoneCompetitors ==
    {c.id : c \in {c \in StoredCompetitors :
                      \/ c.projectId \in AnsweredDeleted("project")
                      \/ c.id \in AnsweredDeleted("competitor")}}
GonePages == {pg.id : pg \in {pg \in StoredPages : pg.competitorId \in GoneCompetitors}}

\* storage is what one delete of each id answered 200 leaves, however many
\* calls named that id
DeletedOnceEach ==
    /\ projects = {pr \in StoredProjects : pr.id \notin AnsweredDeleted("project")}
    /\ competitors = {c \in StoredCompetitors : c.id \notin GoneCompetitors}
    /\ pages = {pg \in StoredPages : pg.competitorId \notin GoneCompetitors}
    /\ snapshots = SelectSeq(StoredSnapshots, LAMBDA row : row.monitoredPageId \notin GonePages)
    /\ changes = SelectSeq(StoredChanges(StoredSnapshots),
                           LAMBDA row : row.monitoredPageId \notin GonePages)
    /\ reports = SelectSeq(StoredReports,
                           LAMBDA row : row.projectId \notin AnsweredDeleted("project"))

\* call k is answered in this step, for a row that is not stored
AnswersForMissing(k) ==
    /\ dels[k].pc = "delete"
    /\ ~OwnerStored(k)
    /\ dels'[k].pc = "done"

StorageUnchanged ==
    UNCHANGED <<projects, competitors, pages, snapshots, changes, reports>>

\* C26 as stated: a DELETE of a project or competitor that is not stored is
\* answered with success and leaves storage unchanged, so that storage after
\* any number of deletes of an id is what one delete of it leaves.
C26_DeleteMissingSucceeds ==
    /\ []DeletedOnceEach
    /\ [][\A k \in DeleteCalls :
            AnswersForMissing(k) => StorageUnchanged /\ dels'[k].status = 200]_vars

\* C26, amended: a DELETE of a project or competitor that is not stored
\* leaves storage unchanged and is answered 200, never 404; it is answered
\* 500 only when the storage call itself fails.  Storage after any number
\* of deletes of an id is what one delete of it leaves.
C26_DeleteIdempotent ==
    /\ []DeletedOnceEach
    /\ [][\A k \in DeleteCalls :
            AnswersForMissing(k) =>
                /\ StorageUnchanged
                /\ \/ dels'[k].status = 200 /\ dels'[k].thrown = ""
                   \/ dels'[k].status = 500 /\ dels'[k].thrown = "storage"]_vars

\* two calls that were in flight together named the same project and both
\* were answered 200, one with the row it deleted, one without; a third
\* deleted a competitor that the project delete had removed already
C26_Witness ==
    \E k, l, m \in DeleteCalls :
        /\ dels[k].kind = "project" /\ dels[l].kind = "project"
        /\ dels[k].id = dels[l].id
        /\ dels[k].status = 200 /\ dels[k].deletedId # Null
        /\ dels[l].status = 200 /\ dels[l].deletedId = Null
        /\ dels[m].kind = "competitor" /\ dels[m].status = 200 /\ dels[m].deletedId = Null
        /\ \E c \in StoredCompetitors : c.id = dels[m].id /\ c.projectId = dels[k].id
        /\ Len(snapshots) < Len(StoredSnapshots)


(***************************************************************************)
(* Vocabulary of the properties about the pages panel.                     *)
(***************************************************************************)
\* the calls whose POST /scrape for page pageId has not returned yet
SnapshotsInFlight(pageId) ==
    {k \in PanelCalls :
        /\ panel.calls[k].handler = "handleRunSnapshot"
        /\ panel.calls[k].pc \in {"post", "posted"}
        /\ panel.calls[k].pageId = pageId}

\* the snapshot button of page pageId is rendered disabled
SnapshotButtonDisabled(pageId) == panel.scrapingPageId = Some(pageId)

\* C27: the snapshot button of a page is disabled as long as a snapshot
\* request of the panel for that page is in flight, so that no two snapshot
\* requests for one page are in flight at once.
C27_ButtonDisabledWhileInFlight ==
    \A pageId \in PanelPages :
        /\ SnapshotsInFlight(pageId) # {} => SnapshotButtonDisabled(pageId)
        /\ Cardinality(SnapshotsInFlight(pageId)) <= 1

\* the snapshot of one page is in flight on an enabled button because the
\* button of the other page was clicked after it
EnabledWhileInFlight ==
    \E pageId \in PanelPages, other \in PanelPages :
        /\ pageId # other
        /\ SnapshotsInFlight(pageId) # {} /\ SnapshotsInFlight(other) # {}
        /\ SnapshotButtonDisabled(other)
        /\ ~SnapshotButtonDisabled(pageId)

\* two snapshot requests for one page are in flight
TwoSnapshotsInFlight ==
    \E pageId \in PanelPages : Cardinality(SnapshotsInFlight(pageId)) >= 2

\* the ids of the changes the finished snapshot runs of the panel created
\* for page pageId
CreatedByFinishedRuns(pageId) ==
    {Val(panel.calls[k].created) :
        k \in {k \in PanelCalls :
                  /\ panel.calls[k].handler = "handleRunSnapshot"
                  /\ panel.calls[k].pc = "done"
                  /\ panel.calls[k].pageId = pageId
                  /\ panel.calls[k].created # Null}}

\* the history of page pageId is shown expanded, loaded and without error
HistoryShown(pageId) ==
    /\ panel.expandedPageId = Some(pageId)
    /\ panel.changesByPage[pageId] # Null
    /\ ~Val(panel.changesByPage[pageId]).loading
    /\ ~Val(panel.changesByPage[pageId]).error
    /\ Val(panel.changesByPage[pageId]).changes # Null

\* the ids of the changes the history shown for page pageId lists
ShownChanges(pageId) == Range(Val(Val(panel.changesByPage[pageId]).changes))

\* C30: whenever the history of a page is shown expanded after a snapshot
\* run of the panel for that page has finished, it lists the changes that
\* run created.
C30_HistoryIncludesRunChanges ==
    \A pageId \in PanelPages :
        HistoryShown(pageId) => CreatedByFinishedRuns(pageId) \subseteq ShownChanges(pageId)

\* no call is in flight, the history of a page was expanded while its
\* snapshot was running, and the change the run created is not listed
StaleAfterExpandDuringRun ==
    \E pageId \in PanelPages :
        /\ \A k \in PanelCalls : panel.calls[k].pc \in {"idle", "done"}
        /\ HistoryShown(pageId)
        /\ CreatedByFinishedRuns(pageId) # {}
        /\ ShownChanges(pageId) = {}
        /\ \E k, l \in PanelCalls :
              /\ k < l
              /\ panel.calls[k].handler = "handleRunSnapshot" /\ panel.calls[k].pageId = pageId
              /\ panel.calls[l].handler = "handleToggleChanges" /\ panel.calls[l].pageId = pageId

\* the history was loaded, collapsed and, after a run that was clicked
\* while it was collapsed, expanded again without a reload
StaleAfterCollapse ==
    \E pageId \in PanelPages :
        /\ \A k \in PanelCalls : panel.calls[k].pc \in {"idle", "done"}
        /\ HistoryShown(pageId)
        /\ CreatedByFinishedRuns(pageId) # {}
        /\ ShownChanges(pageId) = {}
        /\ \E k, l \in PanelCalls :
              /\ k < l
              /\ panel.calls[k].handler = "handleToggleChanges" /\ panel.calls[k].pageId = pageId
              /\ panel.calls[l].handler = "handleRunSnapshot" /\ panel.calls[l].pageId = pageId
              /\ panel.calls[l].current # Null

\* a run that was clicked while the history was expanded has reloaded it
ReloadedAfterRun ==
    \E pageId \in PanelPages :
        /\ HistoryShown(pageId)
        /\ CreatedByFinishedRuns(pageId) # {}
        /\ CreatedByFinishedRuns(pageId) \subseteq ShownChanges(pageId)


(***************************************************************************)
(* Vocabulary of the properties about the capture history.                 *)
(***************************************************************************)
\* the text of a stored capture
TextOf(sn) == Coalesce(sn.extractedText, <<>>)

\* the captures of the page of capture sn that were taken before it
TakenBefore(sn) ==
    {o \in Range(snapshots) :
        o.monitoredPageId = sn.monitoredPageId /\ o.capturedAt < sn.capturedAt}

\* the capture that immediately precedes sn in the history of its page
Preceding(sn) ==
    {o \in TakenBefore(sn) : \A other \in TakenBefore(sn) : other.capturedAt <= o.capturedAt}

\* every capture of a page has a non-empty text whose length is within
\* MIN_LENGTH_DELTA of the length of the text of the capture before it
EveryStepSmall ==
    \A sn \in Range(snapshots) : \A o \in Preceding(sn) :
        /\ Len(TextOf(sn)) > 0
        /\ Abs(Len(TextOf(sn)) - Len(TextOf(o))) <= MIN_LENGTH_DELTA

\* C28: in sequential runs, as long as every new text is non-empty and
\* within 20 characters of the length of the capture immediately before it,
\* no TEXT change is stored, whatever the distance to the first capture.
C28_BaselineAdvances ==
    EveryStepSmall => \A c \in Range(changes) : c.changeType # "TEXT"

\* three captures of page 1, each a small step from the one before, the
\* last more than 20 characters longer than the first, both runs answered
\* 201 and no change stored
C28_Witness ==
    /\ EveryStepSmall
    /\ runs[1].pc = "done" /\ runs[1].status = 201 /\ ~runs[1].hasChange
    /\ \E a, b, c \in Range(snapshots) :
          /\ a.monitoredPageId = 1 /\ b.monitoredPageId = 1 /\ c.monitoredPageId = 1
          /\ a.capturedAt < b.capturedAt /\ b.capturedAt < c.capturedAt
          /\ TextOf(a) # TextOf(b) /\ TextOf(b) # TextOf(c)
          /\ Len(TextOf(c)) - Len(TextOf(a)) > MIN_LENGTH_DELTA
    /\ changes = <<>>


\* no capture run is in progress
NoRunInProgress == \A p \in Slots : runs[p].pc \in {"idle", "done"}

\* a TEXT change from capture o to capture sn is stored
TextChangeStored(o, sn) ==
    \E c \in Range(changes) :
        c.changeType = "TEXT" /\ c.oldSnapshotId = o.id /\ c.newSnapshotId = sn.id

\* the pairs of adjacent captures whose texts call for a TEXT change that
\* is not stored
MissingTextChanges ==
    {pair \in Range(snapshots) \X Range(snapshots) :
        /\ pair[1] \in Preceding(pair[2])
        /\ TextChangeDetected(pair[1], pair[2].extractedText)
        /\ ~TextChangeStored(pair[1], pair[2])}

\* C29: whenever no capture run is in progress, every two captures of a
\* page that are adjacent in capture time and whose texts satisfy the TEXT
\* rule have their TEXT change stored, after any interleaving of runs and
\* after runs in which a storage write failed.
C29_ChangesComplete == NoRunInProgress => MissingTextChanges = {}

\* a change is missing after a run whose insert of the change was rejected
MissingAfterFailedWrite ==
    /\ NoRunInProgress
    /\ \E pair \in MissingTextChanges, p \in Slots :
          /\ runs[p].status = 500 /\ runs[p].thrown = "storage"
          /\ owner.snap[pair[2].id] = runs[p].req

\* a change is missing between the captures of two runs that overlapped and
\* were both answered 201
MissingAfterOverlap ==
    /\ NoRunInProgress
    /\ \A p \in Slots : runs[p].status = 201
    /\ \E pair \in MissingTextChanges :
          owner.snap[pair[1].id] # 0 /\ owner.snap[pair[2].id] # 0


====
